---- MODULE Spec2Model ----
(***************************************************************************)
(* Progress tracking and adaptive difficulty of the Smart Kids Math shell: *)
(* GameProgress (profile, per-game ledger, post-game adjustment) and       *)
(* GameManager (session, rewards, pre-game difficulty resolution) of       *)
(* src/smart_kids_math_portable/src/core/game_manager.py, with start-up on *)
(* a save file (load and migration) and the settings screen of             *)
(* src/smart_kids_math_portable/src/ui/enhanced_settings_screen.py; the    *)
(* main loop of src/main.py, the AudioPlayer of utils/audio_utils.py, and  *)
(* the answer options of SimpleMathGame and the score of CountingGame.     *)
(*                                                                         *)
(* Floats of the source are modelled by exact integer arithmetic: a rate   *)
(* w/n compared with a decimal literal t is compared as 100*w against      *)
(* (100*t)*n, which agrees with IEEE doubles for the small n used here.    *)
(***************************************************************************)
EXTENDS Integers, Sequences, FiniteSets, TLC

VARIABLES
    data,          \* GameProgress.data: the in-memory profile
    file,          \* content of SAVE_FILE (None while no file was written)
    current_game,  \* GameManager.current_game: the session, or None
    today,         \* what dt.date.today() returns
    clock,         \* what datetime.now() returns, in ticks
    calls,         \* per game type, every history entry ever appended, in call order
    call,          \* the last operation called on the manager and its arguments
    ret,           \* the value the last get_difficulty returned
    ended,         \* per game type, the end_game calls made with a session of it
    stats,         \* the value the last get_game_stats returned
    screen,        \* the EnhancedSettingsScreen while it is open, or None
    start_file,    \* content of SAVE_FILE when the program started
    app,           \* SmartKidsMath: state, running and the post-game timer
    player,        \* the AudioPlayer, its worker threads and speech processes
    game           \* the game instance SmartKidsMath.current_game refers to

vars == <<data, file, current_game, today, clock, calls, call, ret,
          ended, stats, screen, start_file, app, player, game>>

-----------------------------------------------------------------------------
(* Bounds of the exploration *)

MaxSteps == 4        \* start_game / end_game calls explored after loading
MaxPlayed == 10      \* games already played in a loaded profile (difficulty runs)
MaxAgeYears == 10    \* oldest birth year explored, in years before today
MaxMusicPlayed == 6  \* music_theory games in a save file of the old format
MaxEvents == 6       \* clicks, keys and calls explored around the settings screen
MaxDt == 2           \* longest frame of the main loop, in seconds
MaxUtterances == 2   \* speak calls made on the audio player
MaxOperand == 3      \* largest operand of a question of the math game
MaxScore == 12       \* score of the counting game up to which submits are explored

(* Program constants *)

HistoryCap == 50             \* update_game_result: history[-50:]
MinGamesBeforeAdjust == 5    \* ADAPTIVE_SETTINGS['min_games_before_adjust']
IncreaseThresholdPct == 85   \* ADAPTIVE_SETTINGS['difficulty_increase_threshold'] = 0.85
DecreaseThresholdPct == 55   \* ADAPTIVE_SETTINGS['difficulty_decrease_threshold'] = 0.55
MinDifficulty == 1
MaxDifficulty == 10
DefaultBaseDifficulty == 5   \* get_difficulty: base_difficulty = 5
MinAgeMonths == 36           \* _validate_and_save: if months < 36
MaxAgeMonths == 120          \* _validate_and_save: elif months > 120
NameMax == 8                 \* handle_event: len(self.temp_name) < 8
SliderWidth == 300           \* _create_difficulty_sliders: Rect(..., 300, 20)
NudgeMinPlayed == 3          \* get_difficulty: if played > 3
BaseCoins == 10              \* end_game: base_coins = 10

None == [none |-> TRUE]

Min(a, b) == IF a < b THEN a ELSE b
Max(a, b) == IF a > b THEN a ELSE b

\* the ids with a record in the default profile
KnownTypes == {"find_difference", "counting", "simple_math", "music_theory",
               "staff_reading", "rhythm", "interval"}

\* the ids the main menu can start
MenuTypes == {"counting", "simple_math", "staff_reading", "rhythm", "interval",
              "find_difference", "drawing"}

-----------------------------------------------------------------------------
(* GameProgress *)

ZeroRecord ==
    [level |-> 1, games_played |-> 0, games_won |-> 0,
     current_difficulty |-> 1, history |-> <<>>]

NoSettings == [g \in {} |-> 0]   \* no 'difficulty_settings' key (read as {})
NoDate == <<>>                   \* no 'birth_date' key (None; falsy like '')

\* the default player_name, three characters
DefaultName == <<"xiao", "peng", "you">>

\* _load_progress, the default structure (daily_streak is never read or
\* written again and is left out)
DefaultData(now) ==
    [player_name |-> DefaultName,
     created_at |-> now,
     total_coins |-> 0,
     total_stars |-> 0,
     games |-> [g \in KnownTypes |-> ZeroRecord],
     achievements |-> <<>>,
     difficulty_settings |-> NoSettings,
     birth_date |-> NoDate,
     last_played |-> now]

\* save_progress: stamps last_played, then the whole profile is written
SaveProgress(d, now) == [d EXCEPT !.last_played = now]

Wins(h) == Cardinality({i \in 1..Len(h) : h[i].won})

LastN(h, n) == IF Len(h) > n THEN SubSeq(h, Len(h) - n + 1, Len(h)) ELSE h

\* _adjust_difficulty raising without the upper limit
AdjustDifficultyUncapped(rec) ==
    IF Len(rec.history) < MinGamesBeforeAdjust
    THEN rec
    ELSE LET recent == LastN(rec.history, MinGamesBeforeAdjust)
             w == Wins(recent)
             n == Len(recent)
         IN  IF 100 * w >= IncreaseThresholdPct * n
             THEN [rec EXCEPT !.current_difficulty = @ + 1]
             ELSE IF 100 * w <= DecreaseThresholdPct * n
             THEN [rec EXCEPT !.current_difficulty = Max(@ - 1, MinDifficulty)]
             ELSE rec

\* _adjust_difficulty taking the success rate over the whole history
AdjustDifficultyAllHistory(rec) ==
    IF Len(rec.history) < MinGamesBeforeAdjust
    THEN rec
    ELSE LET w == Wins(rec.history)
             n == Len(rec.history)
         IN  IF 100 * w >= IncreaseThresholdPct * n
             THEN [rec EXCEPT !.current_difficulty = Min(@ + 1, MaxDifficulty)]
             ELSE IF 100 * w <= DecreaseThresholdPct * n
             THEN [rec EXCEPT !.current_difficulty = Max(@ - 1, MinDifficulty)]
             ELSE rec

\* _adjust_difficulty on one game record
AdjustDifficulty(rec) ==
    IF Len(rec.history) < MinGamesBeforeAdjust
    THEN rec
    ELSE LET recent == LastN(rec.history, MinGamesBeforeAdjust)
             w == Wins(recent)
             n == Len(recent)
         IN  IF 100 * w >= IncreaseThresholdPct * n
             THEN [rec EXCEPT !.current_difficulty = Min(@ + 1, MaxDifficulty)]
             ELSE IF 100 * w <= DecreaseThresholdPct * n
             THEN [rec EXCEPT !.current_difficulty = Max(@ - 1, MinDifficulty)]
             ELSE rec

\* the entry update_game_result builds before appending it (the optional
\* 'details' payload is stored as given and never read; it is left out)
HistoryEntry(rec, won, score, time_taken, now) ==
    [timestamp |-> now, won |-> won, score |-> score,
     time_taken |-> time_taken, difficulty |-> rec.current_difficulty]

\* history[:50], keeping the oldest entries
TruncateOldest(h) == IF Len(h) > HistoryCap THEN SubSeq(h, 1, HistoryCap) ELSE h

\* history[-50:] once the history is longer than 50
Truncate(h) == IF Len(h) > HistoryCap THEN LastN(h, HistoryCap) ELSE h

\* update_game_result building the entry after the adjustment
UpdateRecordEntryAfter(rec, won, score, time_taken, now) ==
    LET counted == [rec EXCEPT !.games_played = @ + 1,
                               !.games_won = IF won THEN @ + 1 ELSE @]
        probe == [counted EXCEPT !.history =
                      Append(@, HistoryEntry(counted, won, score, time_taken, now))]
        entry == HistoryEntry(AdjustDifficulty(probe), won, score, time_taken, now)
        kept == [counted EXCEPT !.history = Truncate(Append(@, entry))]
    IN  AdjustDifficulty(kept)

\* update_game_result on the record of one game type
UpdateRecord(rec, won, score, time_taken, now) ==
    LET counted == [rec EXCEPT !.games_played = @ + 1,
                               !.games_won = IF won THEN @ + 1 ELSE @]
        entry == HistoryEntry(counted, won, score, time_taken, now)
        kept == [counted EXCEPT !.history = Truncate(Append(@, entry))]
    IN  AdjustDifficulty(kept)

\* update_game_result; game_type must have a record (KeyError otherwise)
UpdateGameResult(d, game_type, won, score, time_taken, now) ==
    SaveProgress(
        [d EXCEPT !.games[game_type] = UpdateRecord(@, won, score, time_taken, now)],
        now)

\* self.data['games'][game_type] finds a record (KeyError otherwise)
HasRecord(d, game_type) == "games" \in DOMAIN d /\ game_type \in DOMAIN d.games

\* the ids _migrate_data creates
NewTypes == {"staff_reading", "rhythm", "interval"}

NoGames == [g \in {} |-> ZeroRecord]   \* the {} of self.data.get('games', {})

\* the record _migrate_data derives from music_theory, with games_won copied
MigratedRecordWonCopied(music) ==
    [level |-> music.level,
     games_played |-> music.games_played \div 3,
     games_won |-> music.games_won,
     current_difficulty |-> music.current_difficulty,
     history |-> <<>>]

\* the record _migrate_data derives from the music_theory record
MigratedRecord(music) ==
    [level |-> music.level,
     games_played |-> music.games_played \div 3,
     games_won |-> music.games_won \div 3,
     current_difficulty |-> music.current_difficulty,
     history |-> <<>>]

\* _migrate_data without its early return and its 'not in games' tests
MigrateGamesOverwriting(games) ==
    LET fresh == IF "music_theory" \in DOMAIN games
                 THEN MigratedRecord(games["music_theory"])
                 ELSE ZeroRecord
    IN  [games |-> [g \in DOMAIN games \cup NewTypes |->
                        IF g \in NewTypes THEN fresh ELSE games[g]],
         saved |-> TRUE]

\* _migrate_data on the mapping it calls games: the mapping it leaves and
\* whether it went on to save_progress
MigrateGames(games) ==
    IF NewTypes \subseteq DOMAIN games
    THEN [games |-> games, saved |-> FALSE]
    ELSE LET fresh == IF "music_theory" \in DOMAIN games
                      THEN MigratedRecord(games["music_theory"])
                      ELSE ZeroRecord
         IN  [games |-> [g \in DOMAIN games \cup NewTypes |->
                             IF g \in DOMAIN games THEN games[g] ELSE fresh],
              saved |-> TRUE]

\* _migrate_data on a profile that is a JSON object. Without a 'games' key
\* the mapping filled in is the default {} of .get, which the profile never
\* receives.
MigrateData(d, now) ==
    LET has == "games" \in DOMAIN d
        m == MigrateGames(IF has THEN d.games ELSE NoGames)
        kept == IF has THEN [d EXCEPT !.games = m.games] ELSE d
    IN  [data |-> IF m.saved THEN SaveProgress(kept, now) ELSE kept,
         saved |-> m.saved]

\* won / total if total > 0 else 0, the quotient kept as a fraction
WinRate(won, total) ==
    IF total > 0 THEN [num |-> won, den |-> total] ELSE [num |-> 0, den |-> 1]

\* get_game_stats on the record of one game type
GameStats(rec) ==
    LET recent == LastN(rec.history, 10)
    IN  [level |-> rec.level,
         games_played |-> rec.games_played,
         games_won |-> rec.games_won,
         win_rate |-> WinRate(rec.games_won, rec.games_played),
         current_difficulty |-> rec.current_difficulty,
         recent_performance |-> [i \in 1..Len(recent) |-> recent[i].won]]

AddCoins(d, amount, now) == SaveProgress([d EXCEPT !.total_coins = @ + amount], now)

AddStars(d, amount, now) == SaveProgress([d EXCEPT !.total_stars = @ + amount], now)

-----------------------------------------------------------------------------
(* GameManager *)

\* start_game: the session record
NewGame(game_type, now) ==
    [type |-> game_type, start_time |-> now, score |-> 0, completed |-> FALSE]

\* int(base_coins * (1 + difficulty * 0.1)); exact for difficulty 1..10
Coins(difficulty) == (BaseCoins * (10 + difficulty)) \div 10

Stars(score) == IF score >= 90 THEN 3 ELSE IF score >= 70 THEN 2 ELSE 1

\* end_game's reward block, run after update_game_result returned
Reward(d, game_type, won, score, now) ==
    IF won
    THEN LET difficulty == d.games[game_type].current_difficulty
         IN  AddStars(AddCoins(d, Coins(difficulty), now), Stars(score), now)
    ELSE d

\* the profile end_game leaves for a session whose type has a record
EndGameData(d, cg, won, score, now) ==
    Reward(UpdateGameResult(d, cg.type, won, score, now - cg.start_time, now),
           cg.type, won, score, now)

-----------------------------------------------------------------------------
(* Dates: 'birth_date' is text, a sequence of characters *)

Digits == <<"0", "1", "2", "3", "4", "5", "6", "7", "8", "9">>

IsDigit(c) == \E i \in 1..10 : Digits[i] = c

DigitVal(c) == (CHOOSE i \in 1..10 : Digits[i] = c) - 1

\* str(n) for n >= 0
RECURSIVE IntToStr(_)
IntToStr(n) ==
    IF n < 10 THEN <<Digits[n + 1]>>
    ELSE IntToStr(n \div 10) \o <<Digits[(n % 10) + 1]>>

\* the format spec :02d
Pad2(n) == IF n < 10 THEN <<"0">> \o IntToStr(n) ELSE IntToStr(n)

\* f"{year}-{month:02d}-{day:02d}", the text the settings screen stores
FormatDate(year, month, day) ==
    IntToStr(year) \o <<"-">> \o Pad2(month) \o <<"-">> \o Pad2(day)

\* str.split('-')
RECURSIVE Split(_)
Split(s) ==
    IF \A i \in 1..Len(s) : s[i] # "-"
    THEN <<s>>
    ELSE LET i == CHOOSE k \in 1..Len(s) :
                      s[k] = "-" /\ \A j \in 1..(k - 1) : s[j] # "-"
         IN  <<SubSeq(s, 1, i - 1)>> \o Split(SubSeq(s, i + 1, Len(s)))

\* int(text) succeeds (texts here hold digits and '-' only)
CanInt(p) == Len(p) > 0 /\ \A i \in 1..Len(p) : IsDigit(p[i])

RECURSIVE ParseInt(_)
ParseInt(p) ==
    IF p = <<>> THEN 0
    ELSE 10 * ParseInt(SubSeq(p, 1, Len(p) - 1)) + DigitVal(p[Len(p)])

IsLeap(y) == (y % 4 = 0 /\ y % 100 # 0) \/ y % 400 = 0

DaysInMonth(y, m) ==
    IF m = 2 THEN (IF IsLeap(y) THEN 29 ELSE 28)
    ELSE IF m \in {4, 6, 9, 11} THEN 30 ELSE 31

\* dt.date(year, month, day) does not raise ValueError
ValidDate(y, m, d) ==
    /\ y \in 1..9999
    /\ m \in 1..12
    /\ d \in 1..DaysInMonth(y, m)

\* the try block of get_difficulty runs to its end: three parts, three ints, a date
Parses(text) ==
    LET parts == Split(text)
    IN  /\ Len(parts) = 3
        /\ \A i \in 1..3 : CanInt(parts[i])
        /\ ValidDate(ParseInt(parts[1]), ParseInt(parts[2]), ParseInt(parts[3]))

ParseDate(text) ==
    LET parts == Split(text)
    IN  [year |-> ParseInt(parts[1]), month |-> ParseInt(parts[2]),
         day |-> ParseInt(parts[3])]

\* months = (today.year - birth.year) * 12 + today.month - birth.month
AgeMonths(birth, now_date) ==
    (now_date.year - birth.year) * 12 + now_date.month - birth.month

\* the table with its first step at months <= 42
AgeBaseInclusive(months) ==
    IF months <= 42 THEN 1
    ELSE IF months < 48 THEN 2
    ELSE IF months < 54 THEN 3
    ELSE IF months < 60 THEN 4
    ELSE IF months < 66 THEN 5
    ELSE IF months < 72 THEN 6
    ELSE IF months < 84 THEN 7
    ELSE IF months < 96 THEN 8
    ELSE IF months < 108 THEN 9
    ELSE 10

\* the if/elif table on months
AgeBase(months) ==
    IF months < 42 THEN 1
    ELSE IF months < 48 THEN 2
    ELSE IF months < 54 THEN 3
    ELSE IF months < 60 THEN 4
    ELSE IF months < 66 THEN 5
    ELSE IF months < 72 THEN 6
    ELSE IF months < 84 THEN 7
    ELSE IF months < 96 THEN 8
    ELSE IF months < 108 THEN 9
    ELSE 10

\* base_difficulty when only split and int are inside the try block
BaseDifficultyAnyDay(birth_date, now_date) ==
    IF /\ birth_date # NoDate
       /\ Len(Split(birth_date)) = 3
       /\ \A i \in 1..3 : CanInt(Split(birth_date)[i])
    THEN AgeBase(AgeMonths(ParseDate(birth_date), now_date))
    ELSE DefaultBaseDifficulty

\* base_difficulty before the win-rate adjustment
BaseDifficulty(birth_date, now_date) ==
    IF birth_date # NoDate /\ Parses(birth_date)
    THEN AgeBase(AgeMonths(ParseDate(birth_date), now_date))
    ELSE DefaultBaseDifficulty

\* the win-rate adjustment with >= 0.9 for the two-level raise
NudgeInclusive(base, played, won) ==
    IF played > NudgeMinPlayed
    THEN IF 10 * won >= 9 * played THEN Min(base + 2, MaxDifficulty)
         ELSE IF 10 * won > 8 * played THEN Min(base + 1, MaxDifficulty)
         ELSE IF 10 * won < 2 * played THEN Max(base - 2, MinDifficulty)
         ELSE IF 10 * won < 3 * played THEN Max(base - 1, MinDifficulty)
         ELSE base
    ELSE base

\* the win-rate adjustment of base_difficulty; win_rate = won / played
Nudge(base, played, won) ==
    IF played > NudgeMinPlayed
    THEN IF 10 * won > 9 * played THEN Min(base + 2, MaxDifficulty)
         ELSE IF 10 * won > 8 * played THEN Min(base + 1, MaxDifficulty)
         ELSE IF 10 * won < 2 * played THEN Max(base - 2, MinDifficulty)
         ELSE IF 10 * won < 3 * played THEN Max(base - 1, MinDifficulty)
         ELSE base
    ELSE base

\* max(v, 1) without the upper limit
ClampBelowOnly(v) == Max(v, MinDifficulty)

\* min(max(v, 1), 10)
Clamp(v) == Min(Max(v, MinDifficulty), MaxDifficulty)

\* get_difficulty treating the override as a baseline the win rate adjusts
GetDifficultyValueNudged(d, game_type, now_date) ==
    LET has == game_type \in DOMAIN d.games
        played == IF has THEN d.games[game_type].games_played ELSE 0
        won == IF has THEN d.games[game_type].games_won ELSE 0
        base == IF game_type \in DOMAIN d.difficulty_settings
                THEN d.difficulty_settings[game_type]
                ELSE BaseDifficulty(d.birth_date, now_date)
    IN  Clamp(Nudge(base, played, won))

\* get_difficulty answering with the stored current_difficulty of the record
GetDifficultyValueStored(d, game_type, now_date) ==
    IF game_type \in DOMAIN d.difficulty_settings
    THEN Clamp(d.difficulty_settings[game_type])
    ELSE IF game_type \in DOMAIN d.games
    THEN d.games[game_type].current_difficulty
    ELSE BaseDifficulty(d.birth_date, now_date)

\* get_difficulty
GetDifficultyValue(d, game_type, now_date) ==
    IF game_type \in DOMAIN d.difficulty_settings
    THEN Clamp(d.difficulty_settings[game_type])
    ELSE LET base == BaseDifficulty(d.birth_date, now_date)
             has == game_type \in DOMAIN d.games
             played == IF has THEN d.games[game_type].games_played ELSE 0
             won == IF has THEN d.games[game_type].games_won ELSE 0
         IN  Clamp(Nudge(base, played, won))

-----------------------------------------------------------------------------
(* Profiles found at start-up *)

\* what one played game was: its type and the result the game reported
Play(game_type, won, score) == [type |-> game_type, won |-> won, score |-> score]

\* n games of one type with one outcome
Games(game_type, n, won, score) == [i \in 1..n |-> Play(game_type, won, score)]

\* n games of one type, every third one lost
MixedGames(game_type, n) ==
    [i \in 1..n |-> Play(game_type, i % 3 # 0, IF i % 2 = 0 THEN 90 ELSE 70)]

\* the entry an update_game_result call is to append: its arguments and the
\* difficulty in effect when it was called
CallEntry(d, game_type, won, score, time_taken, now) ==
    [timestamp |-> now, won |-> won, score |-> score, time_taken |-> time_taken,
     difficulty |-> d.games[game_type].current_difficulty]

\* one start_game / end_game pair of an earlier run, one tick each
PlayOne(w, p) ==
    LET cg == NewGame(p.type, w.clock + 1)
        now == w.clock + 2
    IN  [data |-> EndGameData(w.data, cg, p.won, p.score, now),
         calls |-> [w.calls EXCEPT ![p.type] =
                        Append(@, CallEntry(w.data, p.type, p.won, p.score,
                                            now - cg.start_time, now))],
         clock |-> now]

RECURSIVE Replay(_, _)
Replay(w, plays) ==
    IF plays = <<>> THEN w
    ELSE \* time moves on in every game, so the test below always holds
         LET w1 == PlayOne(w, Head(plays))
         IN  IF w1.clock > w.clock THEN Replay(w1, Tail(plays)) ELSE w

\* the profile, and the calls that made it, after earlier runs played `plays`
\* starting from no save file; the last save happened at time 0
Played(plays) ==
    LET t0 == 0 - 2 * Len(plays)
    IN  Replay([data |-> DefaultData(t0),
                calls |-> [g \in KnownTypes |-> <<>>],
                clock |-> t0], plays)

\* what earlier runs played, in the session specification
SavedRuns ==
    { <<>>,
      Games("counting", 4, TRUE, 90),
      Games("counting", 4, FALSE, 0),
      Games("counting", 6, TRUE, 90) \o Games("counting", 1, FALSE, 0),
      Games("rhythm", 5, TRUE, 70) \o Games("counting", 12, TRUE, 90),
      Games("counting", 13, TRUE, 90),
      MixedGames("counting", HistoryCap - 1),
      MixedGames("counting", HistoryCap + 2) }

\* the game types started in the session specification
PlayTypes == {"counting", "rhythm", "drawing"}

\* the scores a game reports
Scores == {69, 70, 89, 90}

Today0 == [year |-> 2026, month |-> 11, day |-> 3]

NoCall == [op |-> "load", type |-> "", won |-> FALSE, score |-> 0, raised |-> FALSE]

\* the end_game calls with a session behind the history entries c
EndedBy(c) ==
    [g \in KnownTypes \cup MenuTypes |-> IF g \in DOMAIN c THEN Len(c[g]) ELSE 0]

\* GameManager() with the save file earlier runs left (none on a first run)
Init ==
    \E run \in SavedRuns :
        LET w == Played(run)
        IN  /\ data = w.data
            /\ file = IF run = <<>> THEN None ELSE w.data
            /\ calls = w.calls
            /\ clock = 0
            /\ current_game = None
            /\ today = Today0
            /\ call = NoCall
            /\ ret = 0
            /\ ended = EndedBy(w.calls)
            /\ stats = None
            /\ screen = None
            /\ start_file = file
            /\ app = None
            /\ player = None
            /\ game = None

-----------------------------------------------------------------------------
(* Operations of GameManager *)

\* start_game(game_type)
StartGame(game_type) ==
    /\ clock < MaxSteps
    /\ clock' = clock + 1
    /\ current_game' = NewGame(game_type, clock')
    /\ call' = [op |-> "start_game", type |-> game_type, won |-> FALSE,
                score |-> 0, raised |-> FALSE]
    /\ UNCHANGED <<data, file, today, calls, ret, ended, stats, screen, start_file, player>>

\* end_game without its first test: self.current_game['type'] on None raises
EndGameUnguarded(won, score) ==
    IF current_game = None
    THEN /\ call' = [op |-> "end_game", type |-> "", won |-> won,
                     score |-> score, raised |-> TRUE]
         /\ UNCHANGED <<data, file, current_game, today, clock, calls, ret,
                        ended, stats, screen, start_file, player>>
    ELSE /\ clock < MaxSteps
         /\ clock' = clock + 1
         /\ IF HasRecord(data, current_game.type)
            THEN /\ data' = EndGameData(data, current_game, won, score, clock')
                 /\ file' = data'
                 /\ calls' = [calls EXCEPT ![current_game.type] =
                                 Append(@, CallEntry(data, current_game.type, won, score,
                                                     clock' - current_game.start_time,
                                                     clock'))]
                 /\ current_game' = None
                 /\ call' = [op |-> "end_game", type |-> current_game.type,
                             won |-> won, score |-> score, raised |-> FALSE]
            ELSE /\ call' = [op |-> "end_game", type |-> current_game.type,
                             won |-> won, score |-> score, raised |-> TRUE]
                 /\ UNCHANGED <<data, file, current_game, calls>>
         /\ ended' = [ended EXCEPT ![current_game.type] = @ + 1]
         /\ UNCHANGED <<today, ret, stats, screen, start_file, player>>

\* end_game(won, score)
EndGame(won, score) ==
    IF current_game = None
    THEN \* if not self.current_game: return
         /\ call' = [op |-> "end_game", type |-> "", won |-> won,
                     score |-> score, raised |-> FALSE]
         /\ UNCHANGED <<data, file, current_game, today, clock, calls, ret,
                        ended, stats, screen, start_file, player>>
    ELSE /\ clock < MaxSteps
         /\ clock' = clock + 1
         /\ IF HasRecord(data, current_game.type)
            THEN /\ data' = EndGameData(data, current_game, won, score, clock')
                 /\ file' = data'
                 /\ calls' = [calls EXCEPT ![current_game.type] =
                                 Append(@, CallEntry(data, current_game.type, won, score,
                                                     clock' - current_game.start_time,
                                                     clock'))]
                 /\ current_game' = None
                 /\ call' = [op |-> "end_game", type |-> current_game.type,
                             won |-> won, score |-> score, raised |-> FALSE]
            ELSE \* self.data['games'][game_type] raises KeyError: nothing was
                 \* changed yet and the rest of end_game does not run
                 /\ call' = [op |-> "end_game", type |-> current_game.type,
                             won |-> won, score |-> score, raised |-> TRUE]
                 /\ UNCHANGED <<data, file, current_game, calls>>
         /\ ended' = [ended EXCEPT ![current_game.type] = @ + 1]
         /\ UNCHANGED <<today, ret, stats, screen, start_file, player>>

\* get_difficulty(game_type)
GetDifficulty(game_type) ==
    /\ ret' = GetDifficultyValue(data, game_type, today)
    /\ call' = [op |-> "get_difficulty", type |-> game_type, won |-> FALSE,
                score |-> 0, raised |-> FALSE]
    /\ UNCHANGED <<data, file, current_game, today, clock, calls,
                   ended, stats, screen, start_file, app, player, game>>

Next ==
    \/ \E g \in PlayTypes : StartGame(g) /\ UNCHANGED <<app, game>>
    \/ \E won \in BOOLEAN, score \in Scores : EndGame(won, score) /\ UNCHANGED <<app, game>>

Spec == Init /\ [][Next]_vars

-----------------------------------------------------------------------------
(* Difficulty resolution over the profiles a save file can hold *)

\* dates today() returns in the difficulty runs
Todays == {Today0, [year |-> 2027, month |-> 1, day |-> 31]}

\* ages in years and days of the month of the birth dates tried
AgeYears == {0} \cup 3..MaxAgeYears
BirthDays == {1, 28}

\* texts found under 'birth_date': none, dates as the settings screen formats
\* them, and texts that are no date
BirthDates(now_date) ==
    {NoDate}
    \cup {FormatDate(now_date.year - a, m, dd) :
             a \in AgeYears, m \in 1..12, dd \in BirthDays}
    \cup {<<"2", "0", "2", "0">>,
          <<"2", "0", "2", "1", "-", "0", "2", "-", "3", "0">>,
          <<"2", "0", "2", "0", "-", "1", "3", "-", "0", "1">>,
          <<"2", "0", "2", "0", "-", "-", "0", "1">>}

\* mappings found under 'difficulty_settings': none, the one the settings
\* screen writes by default, and single entries inside and outside 1..10
SettingsChoices ==
    {NoSettings, [g \in MenuTypes |-> 5]}
    \cup {[g \in {"counting"} |-> v] : v \in {0, 7, 11}}
    \cup {[g \in {"drawing"} |-> 3]}

\* games played before, as (played, won)
PlayedCounts == {0, 3, 4, 5, MaxPlayed}

\* w wins followed by p - w losses of one type
WinsThenLosses(game_type, p, w) ==
    Games(game_type, w, TRUE, 90) \o Games(game_type, p - w, FALSE, 0)

\* the game types whose difficulty is asked for
AskTypes == {"counting", "rhythm", "drawing"}

\* GameManager() on a save file holding a played profile with settings
InitDiff ==
    \E p \in PlayedCounts :
    \E w \in 0..p :
        LET earlier == Played(WinsThenLosses("counting", p, w))
        IN  \E now_date \in Todays, st \in SettingsChoices :
            \E bd \in BirthDates(now_date) :
                LET loaded == [earlier.data EXCEPT !.birth_date = bd,
                                                   !.difficulty_settings = st]
                IN  /\ data = loaded
                    /\ file = loaded
                    /\ calls = earlier.calls
                    /\ clock = 0
                    /\ current_game = None
                    /\ today = now_date
                    /\ call = NoCall
                    /\ ret = 0
                    /\ ended = EndedBy(earlier.calls)
                    /\ stats = None
                    /\ screen = None
                    /\ start_file = file
                    /\ app = None
                    /\ player = None
                    /\ game = None

NextDiff == \E g \in AskTypes : GetDifficulty(g)

SpecDiff == InitDiff /\ [][NextDiff]_vars

-----------------------------------------------------------------------------
(* Start-up on the save files a run can find, and what follows it *)

Unparsable == [unparsable |-> TRUE]   \* text json.load rejects, or a failing read
JsonArray == [array |-> <<>>]         \* the JSON text []
JsonNull == [null |-> TRUE]           \* the JSON text null

\* JSON values json.load returns that are no dict
NotObjects == {JsonArray, JsonNull}

\* _load_progress: what json.load returned, or the default structure
LoadProgress(f, now) == IF f \in {None, Unparsable} THEN DefaultData(now) ELSE f

\* the ids that had a record before staff_reading, rhythm and interval
OldTypes == KnownTypes \ NewTypes

\* profile d holding game records for ids only
WithGames(d, ids) == [d EXCEPT !.games = [g \in ids |-> d.games[g]]]

\* profile d without its 'games' key
WithoutGames(d) == [k \in DOMAIN d \ {"games"} |-> d[k]]

NoCalls == [g \in KnownTypes |-> <<>>]

\* the save files tried, each with the calls that wrote its histories:
\* none, unusable ones, one without 'games', files this version wrote, files
\* of the version that knew music_theory only, and files lacking some ids
SaveFiles ==
    {[file |-> f, calls |-> NoCalls] :
        f \in {None, Unparsable, JsonArray, JsonNull, WithoutGames(DefaultData(0))}}
    \cup {LET w == Played(run) IN [file |-> w.data, calls |-> w.calls] :
             run \in {Games("counting", 4, TRUE, 90),
                      Games("rhythm", 2, TRUE, 70) \o Games("music_theory", 3, FALSE, 0)}}
    \cup UNION {{LET w == Played(WinsThenLosses("music_theory", p, n))
                 IN  [file |-> WithGames(w.data, OldTypes), calls |-> w.calls] :
                    n \in 0..p} : p \in 0..MaxMusicPlayed}
    \cup {LET w == Played(WinsThenLosses("music_theory", 5, 4))
          IN  [file |-> WithGames(w.data, ids), calls |-> w.calls] :
             ids \in {OldTypes \cup {"staff_reading"},
                      {"music_theory"},
                      KnownTypes \ {"counting"},
                      NewTypes}}

\* GameManager() on one of the save files: GameProgress.__init__ loads, then
\* migrates; data.get of a value that is no dict raises AttributeError and
\* no object is constructed
InitLoad ==
    \E c \in SaveFiles :
        /\ start_file = c.file
        /\ app = None
        /\ player = None
        /\ game = None
        /\ calls = c.calls
        /\ ended = EndedBy(c.calls)
        /\ clock = 0
        /\ current_game = None
        /\ today = Today0
        /\ ret = 0
        /\ stats = None
        /\ screen = None
        /\ IF c.file \in NotObjects
           THEN /\ data = None
                /\ file = c.file
                /\ call = [NoCall EXCEPT !.raised = TRUE]
           ELSE LET m == MigrateData(LoadProgress(c.file, 0), 0)
                IN  /\ data = m.data
                    /\ file = (IF m.saved THEN m.data ELSE c.file)
                    /\ call = NoCall

\* progress._migrate_data() once more
Migrate ==
    /\ data # None
    /\ clock < MaxSteps
    /\ LET m == MigrateData(data, clock + 1)
       IN  /\ data' = m.data
           /\ file' = (IF m.saved THEN m.data ELSE file)
           /\ clock' = (IF m.saved THEN clock + 1 ELSE clock)
    /\ call' = [NoCall EXCEPT !.op = "migrate"]
    /\ UNCHANGED <<current_game, today, calls, ret, ended, stats, screen, start_file, app, player, game>>

\* progress.get_game_stats(game_type)
GetGameStats(game_type) ==
    /\ data # None
    /\ IF HasRecord(data, game_type)
       THEN /\ stats' = GameStats(data.games[game_type])
            /\ call' = [NoCall EXCEPT !.op = "get_game_stats", !.type = game_type]
       ELSE \* KeyError
            /\ stats' = stats
            /\ call' = [NoCall EXCEPT !.op = "get_game_stats", !.type = game_type,
                                     !.raised = TRUE]
    /\ UNCHANGED <<data, file, current_game, today, clock, calls, ret,
                   ended, screen, start_file, app, player, game>>

\* the game types whose statistics are asked for
StatTypes == {"counting", "music_theory", "rhythm", "drawing"}

\* the program runs on only if GameProgress() returned
NextLoad ==
    \/ Migrate
    \/ \E g \in StatTypes : GetGameStats(g)
    \/ \E g \in PlayTypes : data # None /\ StartGame(g) /\ UNCHANGED <<app, game>>
    \/ \E won \in BOOLEAN : data # None /\ EndGame(won, 90) /\ UNCHANGED <<app, game>>

SpecLoad == InitLoad /\ [][NextLoad]_vars

-----------------------------------------------------------------------------
(* The settings screen and the setters of GameProgress *)

\* the profile has a 'difficulty_settings' key
HasSettings(d) == d.difficulty_settings # NoSettings

\* the default the screen passes to data.get('difficulty_settings', ...)
DefaultSettings == [g \in MenuTypes |-> 5]

\* the screen whose default dict has no entry for the drawing game
NewScreenSixDefaults(d) ==
    LET parts == Split(d.birth_date)
        split == d.birth_date # NoDate /\ Len(parts) = 3
    IN  [temp_name |-> d.player_name,
         temp_birth_year |-> IF split THEN parts[1] ELSE <<>>,
         temp_birth_month |-> IF split THEN parts[2] ELSE <<>>,
         temp_birth_day |-> IF split THEN parts[3] ELSE <<>>,
         editing_name |-> FALSE,
         editing_birth |-> "",
         difficulty_settings |-> IF HasSettings(d) THEN d.difficulty_settings
                                 ELSE [g \in MenuTypes \ {"drawing"} |-> 5],
         shared |-> HasSettings(d)]

\* EnhancedSettingsScreen.__init__: the name, the birth date split into its
\* three fields when it has three parts, and the difficulty dict, which is
\* the profile's own dict (shared) when the profile has one
NewScreen(d) ==
    LET parts == Split(d.birth_date)
        split == d.birth_date # NoDate /\ Len(parts) = 3
    IN  [temp_name |-> d.player_name,
         temp_birth_year |-> IF split THEN parts[1] ELSE <<>>,
         temp_birth_month |-> IF split THEN parts[2] ELSE <<>>,
         temp_birth_day |-> IF split THEN parts[3] ELSE <<>>,
         editing_name |-> FALSE,
         editing_birth |-> "",
         difficulty_settings |-> IF HasSettings(d) THEN d.difficulty_settings
                                 ELSE DefaultSettings,
         shared |-> HasSettings(d)]

\* birth_date > today
DateAfter(a, b) ==
    \/ a.year > b.year
    \/ a.year = b.year /\ a.month > b.month
    \/ a.year = b.year /\ a.month = b.month /\ a.day > b.day

\* the birth date block of _validate_and_save without the test months < 36
BirthCheckNoMinimum(s, now_date) ==
    LET rejected == [ok |-> FALSE, text |-> NoDate]
    IN  IF ~(CanInt(s.temp_birth_year) /\ CanInt(s.temp_birth_month)
             /\ CanInt(s.temp_birth_day))
        THEN rejected
        ELSE LET year == ParseInt(s.temp_birth_year)
                 month == ParseInt(s.temp_birth_month)
                 day == ParseInt(s.temp_birth_day)
                 birth == [year |-> year, month |-> month, day |-> day]
             IN  IF ~ValidDate(year, month, day) THEN rejected
                 ELSE IF DateAfter(birth, now_date) THEN rejected
                 ELSE IF AgeMonths(birth, now_date) > MaxAgeMonths THEN rejected
                 ELSE [ok |-> TRUE, text |-> FormatDate(year, month, day)]

\* the birth date block of _validate_and_save on three filled fields:
\* whether it passes, and the text it stores
BirthCheck(s, now_date) ==
    LET rejected == [ok |-> FALSE, text |-> NoDate]
    IN  IF ~(CanInt(s.temp_birth_year) /\ CanInt(s.temp_birth_month)
             /\ CanInt(s.temp_birth_day))
        THEN rejected
        ELSE LET year == ParseInt(s.temp_birth_year)
                 month == ParseInt(s.temp_birth_month)
                 day == ParseInt(s.temp_birth_day)
                 birth == [year |-> year, month |-> month, day |-> day]
             IN  IF ~ValidDate(year, month, day) THEN rejected
                 ELSE IF DateAfter(birth, now_date) THEN rejected
                 ELSE IF AgeMonths(birth, now_date) < MinAgeMonths THEN rejected
                 ELSE IF AgeMonths(birth, now_date) > MaxAgeMonths THEN rejected
                 ELSE [ok |-> TRUE, text |-> FormatDate(year, month, day)]

\* all three birth fields are filled in
BirthFilled(s) ==
    s.temp_birth_year # <<>> /\ s.temp_birth_month # <<>> /\ s.temp_birth_day # <<>>

\* _validate_and_save: the profile it leaves and whether it returned True.
\* The name is written to the profile before the birth date is looked at.
ValidateAndSave(d, s, now_date, now) ==
    IF s.temp_name = <<>>
    THEN [data |-> d, saved |-> FALSE]
    ELSE LET named == [d EXCEPT !.player_name = s.temp_name]
             b == BirthCheck(s, now_date)
         IN  IF BirthFilled(s) /\ ~b.ok
             THEN [data |-> named, saved |-> FALSE]
             ELSE [data |-> SaveProgress(
                                [named EXCEPT
                                    !.birth_date = IF BirthFilled(s) THEN b.text ELSE @,
                                    !.difficulty_settings = s.difficulty_settings],
                                now),
                   saved |-> TRUE]

\* max(1, min(10, int(rel_x / width * 10) + 1))
SliderValue(rel_x) == Max(1, Min(10, (rel_x * 10) \div SliderWidth + 1))

\* a MOUSEBUTTONDOWN first moves the focus to the box under it, if any
Focus(s, target) ==
    [s EXCEPT !.editing_name = (target = "name"),
              !.editing_birth = IF target \in {"year", "month", "day"}
                                THEN target ELSE ""]

\* main loop: the menu opens the settings screen
OpenSettings ==
    /\ screen = None
    /\ clock < MaxEvents
    /\ clock' = clock + 1
    /\ screen' = NewScreen(data)
    /\ call' = [NoCall EXCEPT !.op = "open_settings"]
    /\ UNCHANGED <<data, file, current_game, today, calls, ret, ended, stats, start_file, app, player, game>>

\* handle_event, MOUSEBUTTONDOWN on an input box or on nothing
ClickBox(target) ==
    /\ screen # None
    /\ clock < MaxEvents
    /\ clock' = clock + 1
    /\ screen' = Focus(screen, target)
    /\ call' = [NoCall EXCEPT !.op = "click_box", !.type = target]
    /\ UNCHANGED <<data, file, current_game, today, calls, ret, ended, stats, start_file, app, player, game>>

\* handle_event, MOUSEBUTTONDOWN on the slider of game_id: the value is set
\* in the screen's dict, which may be the profile's own
ClickSlider(game_id, rel_x) ==
    /\ screen # None
    /\ clock < MaxEvents
    /\ clock' = clock + 1
    /\ LET chosen == [g \in DOMAIN screen.difficulty_settings \cup {game_id} |->
                         IF g = game_id THEN SliderValue(rel_x)
                         ELSE screen.difficulty_settings[g]]
       IN  /\ screen' = [Focus(screen, "slider") EXCEPT !.difficulty_settings = chosen]
           /\ data' = IF screen.shared
                      THEN [data EXCEPT !.difficulty_settings = chosen]
                      ELSE data
    /\ call' = [NoCall EXCEPT !.op = "click_slider", !.type = game_id]
    /\ UNCHANGED <<file, current_game, today, calls, ret, ended, stats, start_file, app, player, game>>

\* handle_event, MOUSEBUTTONDOWN on the save button; the main loop drops the
\* screen when 'save' is returned
ClickSave ==
    /\ screen # None
    /\ clock < MaxEvents
    /\ clock' = clock + 1
    /\ LET v == ValidateAndSave(data, screen, today, clock')
       IN  /\ data' = v.data
           /\ file' = (IF v.saved THEN v.data ELSE file)
           /\ screen' = (IF v.saved THEN None ELSE Focus(screen, "save"))
           /\ call' = [NoCall EXCEPT !.op = "click_save", !.won = v.saved]
    /\ UNCHANGED <<current_game, today, calls, ret, ended, stats, start_file, app, player, game>>

\* handle_event, MOUSEBUTTONDOWN on the cancel button; the main loop drops
\* the screen
ClickCancel ==
    /\ screen # None
    /\ clock < MaxEvents
    /\ clock' = clock + 1
    /\ screen' = None
    /\ call' = [NoCall EXCEPT !.op = "click_cancel"]
    /\ UNCHANGED <<data, file, current_game, today, calls, ret, ended, stats, start_file, app, player, game>>

\* text[:-1]
DropLast(text) == IF text = <<>> THEN text ELSE SubSeq(text, 1, Len(text) - 1)

\* the KEYDOWN branch of handle_event on the screen s; key is "backspace",
\* "tab", "return" or the character typed
Typed(s, key) ==
    IF s.editing_name
    THEN IF key = "backspace" THEN [s EXCEPT !.temp_name = DropLast(@)]
         ELSE IF key = "return" THEN [s EXCEPT !.editing_name = FALSE]
         ELSE IF Len(s.temp_name) < NameMax /\ key # "tab"
         THEN [s EXCEPT !.temp_name = Append(@, key)]
         ELSE s
    ELSE IF s.editing_birth = "" THEN s
    ELSE IF key = "backspace"
    THEN CASE s.editing_birth = "year" -> [s EXCEPT !.temp_birth_year = DropLast(@)]
           [] s.editing_birth = "month" -> [s EXCEPT !.temp_birth_month = DropLast(@)]
           [] s.editing_birth = "day" -> [s EXCEPT !.temp_birth_day = DropLast(@)]
    ELSE IF key = "tab"
    THEN [s EXCEPT !.editing_birth = CASE @ = "year" -> "month"
                                       [] @ = "month" -> "day"
                                       [] OTHER -> ""]
    ELSE IF IsDigit(key)
    THEN CASE s.editing_birth = "year" /\ Len(s.temp_birth_year) < 4 ->
                  [s EXCEPT !.temp_birth_year = Append(@, key)]
           [] s.editing_birth = "month" /\ Len(s.temp_birth_month) < 2 ->
                  [s EXCEPT !.temp_birth_month = Append(@, key)]
           [] s.editing_birth = "day" /\ Len(s.temp_birth_day) < 2 ->
                  [s EXCEPT !.temp_birth_day = Append(@, key)]
           [] OTHER -> s
    ELSE s

\* handle_event, KEYDOWN
KeyDown(key) ==
    /\ screen # None
    /\ clock < MaxEvents
    /\ clock' = clock + 1
    /\ screen' = Typed(screen, key)
    /\ call' = [NoCall EXCEPT !.op = "key_down", !.type = key]
    /\ UNCHANGED <<data, file, current_game, today, calls, ret, ended, stats, start_file, app, player, game>>

\* progress.add_coins(amount), called while no screen takes the events
CallAddCoins(amount) ==
    /\ screen = None
    /\ clock < MaxEvents
    /\ clock' = clock + 1
    /\ data' = AddCoins(data, amount, clock')
    /\ file' = data'
    /\ call' = [NoCall EXCEPT !.op = "add_coins"]
    /\ UNCHANGED <<current_game, today, calls, ret, ended, stats, screen, start_file, app, player, game>>

\* progress.add_stars(amount)
CallAddStars(amount) ==
    /\ screen = None
    /\ clock < MaxEvents
    /\ clock' = clock + 1
    /\ data' = AddStars(data, amount, clock')
    /\ file' = data'
    /\ call' = [NoCall EXCEPT !.op = "add_stars"]
    /\ UNCHANGED <<current_game, today, calls, ret, ended, stats, screen, start_file, app, player, game>>

\* progress.set_player_name(name)
SetPlayerName(name) ==
    /\ screen = None
    /\ clock < MaxEvents
    /\ clock' = clock + 1
    /\ data' = SaveProgress([data EXCEPT !.player_name = name], clock')
    /\ file' = data'
    /\ call' = [NoCall EXCEPT !.op = "set_player_name"]
    /\ UNCHANGED <<current_game, today, calls, ret, ended, stats, screen, start_file, app, player, game>>

\* progress.unlock_achievement(achievement_id): appended and saved only when new
UnlockAchievement(achievement_id) ==
    /\ screen = None
    /\ clock < MaxEvents
    /\ clock' = clock + 1
    /\ IF \E i \in 1..Len(data.achievements) : data.achievements[i] = achievement_id
       THEN UNCHANGED <<data, file>>
       ELSE /\ data' = SaveProgress(
                           [data EXCEPT !.achievements = Append(@, achievement_id)],
                           clock')
            /\ file' = data'
    /\ call' = [NoCall EXCEPT !.op = "unlock_achievement", !.type = achievement_id]
    /\ UNCHANGED <<current_game, today, calls, ret, ended, stats, screen, start_file, app, player, game>>

\* the profiles the settings runs start from: a first run without save
\* file, a file with four counting games won and the settings never saved,
\* and files saved by the settings screen when the child was 45, 36, 120 and
\* 120 months old (the last child is 121 months old today)
SettingsProfiles ==
    {[name |-> DefaultName, birth_date |-> NoDate, saved |-> FALSE, plays |-> <<>>],
     [name |-> DefaultName, birth_date |-> NoDate, saved |-> FALSE,
      plays |-> Games("counting", 4, TRUE, 90)],
     [name |-> DefaultName, birth_date |-> FormatDate(2023, 2, 28), saved |-> TRUE,
      plays |-> <<>>],
     [name |-> <<"A">>, birth_date |-> FormatDate(2023, 11, 3), saved |-> TRUE,
      plays |-> <<>>],
     [name |-> <<"A">>, birth_date |-> FormatDate(2016, 11, 3), saved |-> TRUE,
      plays |-> <<>>],
     [name |-> DefaultName, birth_date |-> FormatDate(2016, 10, 3), saved |-> TRUE,
      plays |-> <<>>]}

\* GameManager() on one of these profiles
InitSettings ==
    \E c \in SettingsProfiles :
        LET w == Played(c.plays)
            d == [w.data EXCEPT
                     !.player_name = c.name,
                     !.birth_date = c.birth_date,
                     !.difficulty_settings = IF c.saved THEN DefaultSettings ELSE NoSettings]
        IN  /\ data = d
            /\ file = (IF c.saved \/ c.plays # <<>> THEN d ELSE None)
            /\ start_file = file
            /\ app = None
            /\ player = None
            /\ game = None
            /\ calls = w.calls
            /\ ended = EndedBy(w.calls)
            /\ clock = 0
            /\ current_game = None
            /\ today = Today0
            /\ call = NoCall
            /\ ret = 0
            /\ stats = None
            /\ screen = None

\* the places clicked, the keys pressed and the arguments passed
Boxes == {"name", "year", "month", "day", "none"}
Keys == {"backspace", "tab", "2", "9", "A"}

NextSettings ==
    \/ OpenSettings
    \/ \E target \in Boxes : ClickBox(target)
    \/ \E rel_x \in {0, 239} : ClickSlider("counting", rel_x)
    \/ ClickSave
    \/ ClickCancel
    \/ \E key \in Keys : KeyDown(key)
    \/ CallAddCoins(5)
    \/ CallAddStars(1)
    \/ SetPlayerName(<<"B">>)
    \/ UnlockAchievement("first_win")
    \/ \E g \in {"counting", "drawing"} : screen = None /\ GetDifficulty(g)

SpecSettings == InitSettings /\ [][NextSettings]_vars

-----------------------------------------------------------------------------
(* The save file as JSON, and the program closed and started again *)

\* json.dump and json.load. A JSON text is kept as its values: a number as
\* its decimal text, a string as its content, true and false as literals,
\* an array as its items and an object as its members in writing order.

\* the decimal text of an int
NumberText(n) == IF n < 0 THEN <<"-">> \o IntToStr(0 - n) ELSE IntToStr(n)

\* the int of a decimal text
TextNumber(t) == IF Head(t) = "-" THEN 0 - ParseInt(Tail(t)) ELSE ParseInt(t)

\* json.dump(self.data): the keys birth_date and difficulty_settings are
\* written only when the profile has them
JsonDump(d) ==
    LET JsonNumber(n) == [number |-> NumberText(n)]
        JsonString(v) == [string |-> v]
        \* the members written for the keys of dict o, in the order of `order`
        Members(order, o, Enc(_, _)) ==
            LET present == SelectSeq(order, LAMBDA k : k \in DOMAIN o)
            IN  [object |-> [i \in 1..Len(present) |->
                       [key |-> present[i], value |-> Enc(present[i], o[present[i]])]]]
        TypeKeys == <<"find_difference", "counting", "simple_math", "music_theory",
                      "staff_reading", "rhythm", "interval", "drawing">>
        DumpEntry(e) ==
            Members(<<"timestamp", "won", "score", "time_taken", "difficulty">>, e,
                    LAMBDA k, v : IF k = "timestamp" THEN JsonString(v)
                                  ELSE IF k = "won"
                                  THEN [literal |-> IF v THEN "true" ELSE "false"]
                                  ELSE JsonNumber(v))
        DumpRecord(rec) ==
            Members(<<"level", "games_played", "games_won", "current_difficulty",
                      "history">>, rec,
                    LAMBDA k, v : IF k = "history"
                                  THEN [array |-> [i \in 1..Len(v) |-> DumpEntry(v[i])]]
                                  ELSE JsonNumber(v))
        keys == SelectSeq(<<"player_name", "created_at", "total_coins", "total_stars",
                            "games", "achievements", "difficulty_settings",
                            "birth_date", "last_played">>,
                          LAMBDA k : /\ k = "birth_date" => d.birth_date # NoDate
                                     /\ k = "difficulty_settings" => HasSettings(d))
    IN  Members(keys, d,
                LAMBDA k, v :
                    CASE k \in {"total_coins", "total_stars"} -> JsonNumber(v)
                      [] k = "games" ->
                             Members(TypeKeys, v, LAMBDA g, rec : DumpRecord(rec))
                      [] k = "achievements" ->
                             [array |-> [i \in 1..Len(v) |-> JsonString(v[i])]]
                      [] k = "difficulty_settings" ->
                             Members(TypeKeys, v, LAMBDA g, n : JsonNumber(n))
                      [] OTHER -> JsonString(v))

\* json.load of an object, read as the program reads it: with .get defaults
\* for birth_date and difficulty_settings
JsonLoad(o) ==
    LET \* the dict json.load builds from an object
        Loaded(obj, Dec(_, _)) ==
            [k \in {obj.object[i].key : i \in 1..Len(obj.object)} |->
                Dec(k, obj.object[CHOOSE i \in 1..Len(obj.object) :
                                      obj.object[i].key = k].value)]
        LoadEntry(e) ==
            Loaded(e, LAMBDA k, v : IF k = "timestamp" THEN v.string
                                    ELSE IF k = "won" THEN v.literal = "true"
                                    ELSE TextNumber(v.number))
        LoadRecord(rec) ==
            Loaded(rec, LAMBDA k, v : IF k = "history"
                                      THEN [i \in 1..Len(v.array) |-> LoadEntry(v.array[i])]
                                      ELSE TextNumber(v.number))
        d == Loaded(o,
                LAMBDA k, v :
                    CASE k \in {"total_coins", "total_stars"} -> TextNumber(v.number)
                      [] k = "games" -> Loaded(v, LAMBDA g, rec : LoadRecord(rec))
                      [] k = "achievements" ->
                             [i \in 1..Len(v.array) |-> v.array[i].string]
                      [] k = "difficulty_settings" ->
                             Loaded(v, LAMBDA g, n : TextNumber(n.number))
                      [] OTHER -> v.string)
    IN  [k \in DOMAIN d \cup {"birth_date", "difficulty_settings"} |->
            IF k \in DOMAIN d THEN d[k]
            ELSE IF k = "birth_date" THEN NoDate ELSE NoSettings]

\* save_progress writing the file before it stamps last_played
WriteFileBeforeStamp(d, now) == JsonDump(d)

\* save_progress: the text written to SAVE_FILE
WriteFile(d, now) == JsonDump(SaveProgress(d, now))

\* the program saves, is closed and started again: a new GameProgress()
\* loads and migrates what save_progress wrote
Restart ==
    /\ data # None
    /\ clock < MaxSteps
    /\ clock' = clock + 1
    /\ LET found == JsonLoad(WriteFile(data, clock'))
           m == MigrateData(LoadProgress(found, clock'), clock')
       IN  /\ data' = m.data
           /\ file' = (IF m.saved THEN m.data ELSE found)
    /\ current_game' = None
    /\ call' = [NoCall EXCEPT !.op = "restart"]
    /\ UNCHANGED <<today, calls, ret, ended, stats, screen, start_file, app, player, game>>

\* GameManager() on the profile the games of earlier runs left, with or
\* without what the settings screen saves
InitRestart ==
    \E run \in {<<>>,
                Games("counting", 4, TRUE, 90),
                Games("rhythm", 2, FALSE, 0) \o Games("counting", 12, TRUE, 70),
                MixedGames("counting", HistoryCap + 2)},
       settings_saved \in BOOLEAN :
        LET w == Played(run)
            d == IF settings_saved
                 THEN [w.data EXCEPT !.birth_date = FormatDate(2020, 5, 28),
                                     !.difficulty_settings =
                                         [DefaultSettings EXCEPT !["counting"] = 10],
                                     !.achievements = <<"first_win">>]
                 ELSE w.data
        IN  /\ data = d
            /\ file = (IF run = <<>> /\ ~settings_saved THEN None ELSE d)
            /\ start_file = file
            /\ app = None
            /\ player = None
            /\ game = None
            /\ calls = w.calls
            /\ ended = EndedBy(w.calls)
            /\ clock = 0
            /\ current_game = None
            /\ today = Today0
            /\ call = NoCall
            /\ ret = 0
            /\ stats = None
            /\ screen = None

NextRestart ==
    \/ \E g \in {"counting", "rhythm"} : StartGame(g) /\ UNCHANGED <<app, game>>
    \/ \E won \in BOOLEAN : EndGame(won, 100) /\ UNCHANGED <<app, game>>
    \/ Restart

SpecRestart == InitRestart /\ [][NextRestart]_vars

-----------------------------------------------------------------------------
(* The main loop of SmartKidsMath: the menu, one game at a time, and the   *)
(* wait after a game has completed. Times are in seconds.                   *)

\* the timer that never advances
ElapsedStuck(timer, dt) == timer

\* self.end_game_timer += dt
Elapsed(timer, dt) == timer + dt

\* SmartKidsMath() on a profile with a name: the menu is shown. 'passed' and
\* 'completed' keep, per game instance created, the end_game calls made with
\* its result and whether its game_complete became true; 'silence' tells
\* whether is_speaking() was false at some tick of the current wait
NewApp ==
    [state |-> "menu", running |-> TRUE, has_timer |-> FALSE, end_game_timer |-> 0,
     passed |-> <<>>, completed |-> <<>>, silence |-> FALSE]

\* what earlier runs left for the main loop: nothing (a first run), a save
\* file of a version without the counting game, and profiles with four
\* counting games won, without and with a birth date and a slider value
InitMain ==
    \E w \in LET won == Played(Games("counting", 4, TRUE, 90))
             IN  {[data |-> DefaultData(0), calls |-> NoCalls],
                  [data |-> WithGames(DefaultData(0), KnownTypes \ {"counting"}),
                   calls |-> NoCalls],
                  won,
                  [won EXCEPT !.data.birth_date = FormatDate(2020, 5, 28)],
                  [won EXCEPT !.data.difficulty_settings =
                                  [g \in {"counting"} |-> 3]]} :
        /\ data = w.data
        /\ file = (IF w.data = DefaultData(0) THEN None ELSE w.data)
        /\ start_file = file
        /\ app = NewApp
        /\ player = None
        /\ game = None
        /\ calls = w.calls
        /\ ended = EndedBy(w.calls)
        /\ clock = 0
        /\ current_game = None
        /\ today = Today0
        /\ call = NoCall
        /\ ret = 0
        /\ stats = None
        /\ screen = None

\* handle_click on a card of the menu: start_game(game_type)
MenuStartGame(game_type) ==
    /\ app.running
    /\ app.state = "menu"
    /\ clock + 1 < MaxSteps
    /\ StartGame(game_type)
    /\ game' = [id |-> Len(app.passed) + 1, type |-> game_type,
                difficulty |-> GetDifficultyValue(data, game_type, today),
                game_complete |-> FALSE]
    /\ app' = [app EXCEPT !.state = "game", !.passed = Append(@, 0),
                          !.completed = Append(@, FALSE)]

\* K_ESCAPE while a game is shown: return_to_menu()
EscapeInGame ==
    /\ app.running
    /\ app.state = "game"
    /\ app' = [app EXCEPT !.state = "menu"]
    /\ game' = None
    /\ UNCHANGED <<data, file, current_game, today, clock, calls, call, ret,
                   ended, stats, screen, start_file, player>>

\* K_ESCAPE while the menu is shown: the loop ends
EscapeInMenu ==
    /\ app.running
    /\ app.state = "menu"
    /\ app' = [app EXCEPT !.running = FALSE]
    /\ UNCHANGED <<data, file, current_game, today, clock, calls, call, ret,
                   ended, stats, screen, start_file, player, game>>

\* update(dt) while a game is shown: current_game.update(dt), in which the
\* game may complete, then the post-game block. A frame of a game that is not
\* complete changes nothing kept here. An exception of end_game leaves
\* update and run: the program ends with the timer attribute set. Of the
\* games started here the counting game sets game_complete; the drawing game
\* has no such attribute
Update(dt, finishes, speaking, result) ==
    /\ app.running
    /\ app.state = "game"
    /\ game # None
    /\ game.game_complete \/ (finishes /\ game.type = "counting")
    /\ LET first == ~app.has_timer
           \* result.get('score', 0)
           score == IF "score" \in DOMAIN result THEN result.score ELSE 0
           \* result.get('completed', False) or result.get('score', 0) > 0
           won == (IF "completed" \in DOMAIN result THEN result.completed ELSE FALSE)
                      \/ score > 0
           raises == first /\ current_game # None
                           /\ ~HasRecord(data, current_game.type)
           timer == Elapsed(IF first THEN 0 ELSE app.end_game_timer, dt)
           seen == [app EXCEPT !.completed[game.id] = TRUE,
                               !.passed[game.id] = IF first THEN @ + 1 ELSE @,
                               !.silence = (IF first THEN FALSE ELSE @) \/ ~speaking]
       IN  /\ IF first
              THEN EndGame(won, score)
              ELSE UNCHANGED <<data, file, current_game, today, clock, calls, call,
                               ret, ended, stats, screen, start_file, player>>
           /\ IF raises
              THEN /\ app' = [seen EXCEPT !.has_timer = TRUE, !.end_game_timer = 0,
                                          !.running = FALSE, !.silence = FALSE]
                   /\ game' = [game EXCEPT !.game_complete = TRUE]
              ELSE IF (~speaking /\ timer > 2) \/ timer > 5
              THEN \* del self.end_game_timer; self.return_to_menu()
                   /\ app' = [seen EXCEPT !.has_timer = FALSE, !.end_game_timer = timer,
                                          !.state = "menu"]
                   /\ game' = None
              ELSE /\ app' = [seen EXCEPT !.has_timer = TRUE, !.end_game_timer = timer]
                   /\ game' = [game EXCEPT !.game_complete = TRUE]

\* one frame of run() with a game shown: dt is clock.tick(FPS) / 1000.0 and
\* result what get_result returns (the games that complete report no
\* 'completed')
Frame == \E dt \in 1..MaxDt, finishes, speaking \in BOOLEAN,
            result \in {[score |-> 0, total |-> 10], [score |-> 8, total |-> 10]} :
            Update(dt, finishes, speaking, result)

NextMain ==
    \/ \E g \in {"counting", "drawing"} : MenuStartGame(g)
    \/ EscapeInGame
    \/ EscapeInMenu
    \/ Frame

SpecMain == InitMain /\ [][NextMain]_vars

\* run() calls update(dt) in every pass of its loop
SpecMainFair == SpecMain /\ WF_vars(Frame)

-----------------------------------------------------------------------------
(* The AudioPlayer: the caller's thread, the speech worker threads and the *)
(* speech processes. A process handle is the index of the process in        *)
(* 'procs'; 0 stands for None.                                              *)

\* stop(): terminate and wait for (or kill) the process current_process
\* refers to, forget it, clear the flag
Stopped(p) ==
    [p EXCEPT !.procs = [i \in DOMAIN @ |->
                            IF i = p.current_process /\ @[i] = "running"
                            THEN "terminated" ELSE @[i]],
              !.current_process = 0,
              !.is_speaking = FALSE]

\* threading.Thread(target=self._speak_text).start()
Spawned(p) == [p EXCEPT !.workers = Append(@, [pc |-> "start", proc |-> 0, waits_on |-> 0])]

\* AudioPlayer(): 'caller' is where the calling thread is, 'by' the thread
\* that took the last step, 'answer' what the last is_playing returned
InitAudio ==
    /\ player = [is_speaking |-> FALSE, current_process |-> 0, procs |-> <<>>,
                 workers |-> <<>>, caller |-> "idle", by |-> "none",
                 answer |-> FALSE]
    /\ app = None
    /\ game = None
    /\ data = DefaultData(0)
    /\ file = None
    /\ start_file = None
    /\ calls = NoCalls
    /\ ended = EndedBy(NoCalls)
    /\ clock = 0
    /\ current_game = None
    /\ today = Today0
    /\ call = NoCall
    /\ ret = 0
    /\ stats = None
    /\ screen = None

\* speak(text) up to the start of the thread: a player that is speaking is
\* stopped and the caller sleeps 0.2 s, in which the workers run on
Speak ==
    /\ player.caller = "idle"
    /\ Len(player.workers) < MaxUtterances
    /\ player' = [(IF player.is_speaking
                   THEN [Stopped(player) EXCEPT !.caller = "sleeping"]
                   ELSE Spawned(player)) EXCEPT !.by = "speak"]
    /\ UNCHANGED <<data, file, current_game, today, clock, calls, call, ret,
                   ended, stats, screen, start_file, app, game>>

\* speak(text) after the sleep: the thread is started
SpeakSpawn ==
    /\ player.caller = "sleeping"
    /\ player' = [Spawned(player) EXCEPT !.caller = "idle", !.by = "spawn"]
    /\ UNCHANGED <<data, file, current_game, today, clock, calls, call, ret,
                   ended, stats, screen, start_file, app, game>>

\* stop_speaking()
Stop ==
    /\ player.caller = "idle"
    /\ player' = [Stopped(player) EXCEPT !.by = "stop"]
    /\ UNCHANGED <<data, file, current_game, today, clock, calls, call, ret,
                   ended, stats, screen, start_file, app, game>>

\* is_speaking(): is_playing()
IsPlaying ==
    /\ player.caller = "idle"
    /\ player' =
         IF player.current_process # 0 /\ player.is_speaking
         THEN IF player.procs[player.current_process] = "running"
              THEN [player EXCEPT !.answer = TRUE, !.by = "is_playing"]
              ELSE [player EXCEPT !.is_speaking = FALSE, !.current_process = 0,
                                  !.answer = FALSE, !.by = "is_playing"]
         ELSE [player EXCEPT !.answer = FALSE, !.by = "is_playing"]
    /\ UNCHANGED <<data, file, current_game, today, clock, calls, call, ret,
                   ended, stats, screen, start_file, app, game>>

\* one step of worker i in _speak_text: set the flag; Popen (which may
\* raise, caught); read current_process and wait for the process read;
\* the finally block
WorkerStep(i, popen_ok) ==
    /\ i \in DOMAIN player.workers
    /\ LET w == player.workers[i]
           p == [player EXCEPT !.by = "worker"]
       IN  CASE w.pc = "start" ->
                  player' = [p EXCEPT !.is_speaking = TRUE,
                                      !.workers[i].pc = "popen"]
             [] w.pc = "popen" ->
                  player' = IF popen_ok
                            THEN [p EXCEPT !.procs = Append(@, "running"),
                                           !.current_process = Len(player.procs) + 1,
                                           !.workers[i].proc = Len(player.procs) + 1,
                                           !.workers[i].pc = "check"]
                            ELSE [p EXCEPT !.workers[i].pc = "check"]
             [] w.pc = "check" ->
                  player' = IF player.current_process # 0
                            THEN [p EXCEPT !.workers[i].waits_on = player.current_process,
                                           !.workers[i].pc = "wait"]
                            ELSE [p EXCEPT !.workers[i].pc = "finally"]
             [] w.pc = "wait" ->
                  /\ player.procs[w.waits_on] # "running"
                  /\ player' = [p EXCEPT !.workers[i].pc = "finally"]
             [] w.pc = "finally" ->
                  player' = [p EXCEPT !.is_speaking = FALSE,
                                      !.current_process = 0,
                                      !.workers[i].pc = "done"]
             [] w.pc = "done" -> FALSE
    /\ UNCHANGED <<data, file, current_game, today, clock, calls, call, ret,
                   ended, stats, screen, start_file, app, game>>

\* a speech process has said its text and exits
ProcessEnds(q) ==
    /\ q \in DOMAIN player.procs
    /\ player.procs[q] = "running"
    /\ player' = [player EXCEPT !.procs[q] = "done", !.by = "process"]
    /\ UNCHANGED <<data, file, current_game, today, clock, calls, call, ret,
                   ended, stats, screen, start_file, app, game>>

NextAudio ==
    \/ Speak
    \/ SpeakSpawn
    \/ Stop
    \/ IsPlaying
    \/ \E i \in 1..MaxUtterances, popen_ok \in BOOLEAN : WorkerStep(i, popen_ok)
    \/ \E q \in 1..MaxUtterances : ProcessEnds(q)

SpecAudio == InitAudio /\ [][NextAudio]_vars

-----------------------------------------------------------------------------
(* SimpleMathGame: a question and its four answer options. 'pc' is the      *)
(* position in _create_answer_options: in its while loop ("options") or     *)
(* returned ("done").                                                       *)

\* _generate_question: the questions a game of this difficulty can ask, by
\* difficulty_params (max, ops, negative), random.choice of the operation and
\* random.randint(0, hi) over the operands explored
Questions(difficulty) ==
    LET max_number ==
            CASE difficulty = 1 -> 5 [] difficulty = 2 -> 8 [] difficulty = 3 -> 10
              [] difficulty = 4 -> 10 [] difficulty = 5 -> 15 [] difficulty = 6 -> 20
              [] difficulty = 7 -> 30 [] difficulty = 8 -> 50 [] difficulty = 9 -> 80
              [] OTHER -> 100
        ops == IF difficulty <= 3 THEN {"+"} ELSE {"+", "-"}
        negative == difficulty >= 7
        RandInt0(hi) == 0..Min(hi, MaxOperand)
        Question(operation, num1, num2) ==
            [operation |-> operation, num1 |-> num1, num2 |-> num2,
             correct_answer |-> IF operation = "+" THEN num1 + num2 ELSE num1 - num2]
        plus == UNION {{Question("+", a, b) : b \in RandInt0(max_number - a)} :
                          a \in RandInt0(max_number)}
        minus == UNION {{Question("-", a, b) :
                            b \in RandInt0(IF negative THEN max_number ELSE a)} :
                           a \in RandInt0(max_number)}
    IN  plus \cup (IF "-" \in ops THEN minus ELSE {})

\* the elements of a sequence
Range(seq) == {seq[i] : i \in DOMAIN seq}

\* SimpleMathGame(difficulty) up to the first pass of the loop of
\* _create_answer_options in the first round
InitMath ==
    /\ \E difficulty \in MinDifficulty..MaxDifficulty :
       \E q \in Questions(difficulty) :
           game = [difficulty |-> difficulty, operation |-> q.operation,
                   num1 |-> q.num1, num2 |-> q.num2,
                   correct_answer |-> q.correct_answer,
                   answer_options |-> <<q.correct_answer>>, pc |-> "options"]
    /\ app = None
    /\ player = None
    /\ data = DefaultData(0)
    /\ file = None
    /\ start_file = None
    /\ calls = NoCalls
    /\ ended = EndedBy(NoCalls)
    /\ clock = 0
    /\ current_game = None
    /\ today = Today0
    /\ call = NoCall
    /\ ret = 0
    /\ stats = None
    /\ screen = None

\* one pass of the while loop: the offset drawn gives an option that is
\* appended when it is not negative and not yet in the list
DrawOption(offset) ==
    /\ game.pc = "options"
    /\ Len(game.answer_options) < 4
    /\ LET wrong_answer == game.correct_answer + offset
       IN  game' = IF wrong_answer >= 0 /\ wrong_answer \notin Range(game.answer_options)
                   THEN [game EXCEPT !.answer_options = Append(@, wrong_answer)]
                   ELSE game
    /\ UNCHANGED <<data, file, current_game, today, clock, calls, call, ret,
                   ended, stats, screen, start_file, app, player>>

\* the loop is left with four options: random.shuffle, and the method returns
Shuffle(order) ==
    /\ game.pc = "options"
    /\ Len(game.answer_options) = 4
    /\ game' = [game EXCEPT !.answer_options = [i \in 1..4 |-> @[order[i]]],
                            !.pc = "done"]
    /\ UNCHANGED <<data, file, current_game, today, clock, calls, call, ret,
                   ended, stats, screen, start_file, app, player>>

\* a pass of the loop with any offset random.randint(-3, 3) draws, and the
\* shuffle with any order it can leave the four options in
NextMath ==
    \/ \E offset \in -3..3 : DrawOption(offset)
    \/ \E order \in {f \in [1..4 -> 1..4] : \A i, j \in 1..4 : f[i] = f[j] => i = j} :
          Shuffle(order)

\* the loop runs on, and random.randint does not avoid a usable offset for
\* ever
SpecMathFair ==
    /\ InitMath
    /\ [][NextMath]_vars
    /\ WF_vars(\E offset \in -3..3 : DrawOption(offset))
    /\ WF_vars(\E order \in {f \in [1..4 -> 1..4] : \A i, j \in 1..4 : f[i] = f[j] => i = j} :
                  Shuffle(order))

-----------------------------------------------------------------------------
(* CountingGame: rounds, the answer typed, the feedback and the score.      *)
(* Times are in half seconds.                                               *)

\* difficulty_params: min, max and show_time of each difficulty
CountParams(difficulty) ==
    CASE difficulty = 1 -> [min |-> 1, max |-> 3, show_time |-> 10]
      [] difficulty = 2 -> [min |-> 1, max |-> 5, show_time |-> 10]
      [] difficulty = 3 -> [min |-> 2, max |-> 7, show_time |-> 12]
      [] difficulty = 4 -> [min |-> 3, max |-> 9, show_time |-> 14]
      [] difficulty = 6 -> [min |-> 5, max |-> 15, show_time |-> 18]
      [] difficulty = 7 -> [min |-> 6, max |-> 18, show_time |-> 20]
      [] difficulty = 8 -> [min |-> 8, max |-> 20, show_time |-> 20]
      [] difficulty = 9 -> [min |-> 10, max |-> 25, show_time |-> 20]
      [] difficulty = 10 -> [min |-> 12, max |-> 30, show_time |-> 20]
      [] OTHER -> [min |-> 4, max |-> 12, show_time |-> 16]

\* _start_new_round, the new count being the one random.randint drew
StartNewRound(g, count) ==
    LET g1 == [g EXCEPT !.round_number = @ + 1, !.player_answer = <<>>,
                        !.wait_for_answer = FALSE, !.show_result_emoji = "none"]
    IN  IF g1.round_number > g1.rounds_total
        THEN [g1 EXCEPT !.game_complete = TRUE]
        ELSE [g1 EXCEPT !.correct_count = count,
                        !.show_timer = CountParams(g.difficulty).show_time,
                        !.is_showing = TRUE]

\* _check_answer
CheckAnswer(g) ==
    IF ~CanInt(g.player_answer) THEN g
    ELSE IF ParseInt(g.player_answer) = g.correct_count
    THEN [g EXCEPT !.score = @ + 1, !.show_result_emoji = "happy",
                   !.emoji_timer = 4]
    ELSE [g EXCEPT !.show_result_emoji = "sad", !.emoji_timer = 3,
                   !.player_answer = <<>>, !.wait_for_answer = FALSE,
                   !.is_showing = TRUE,
                   !.show_timer = CountParams(g.difficulty).show_time]

\* CountingGame(difficulty): the fields set, then the first round with the
\* count random.randint(min_count, max_count) drew
InitCounting ==
    /\ \E difficulty \in {1} :
       \E count \in CountParams(difficulty).min..CountParams(difficulty).max :
           game = StartNewRound(
                      [difficulty |-> difficulty, correct_count |-> 0,
                       player_answer |-> <<>>, score |-> 0, round_number |-> 0,
                       rounds_total |-> 10, game_complete |-> FALSE,
                       show_timer |-> 0, is_showing |-> TRUE,
                       wait_for_answer |-> FALSE, show_result_emoji |-> "none",
                       emoji_timer |-> 0, waiting_for_voice |-> FALSE,
                       voice_timer |-> 0, pending_next_round |-> FALSE], count)
    /\ app = None
    /\ player = None
    /\ data = DefaultData(0)
    /\ file = None
    /\ start_file = None
    /\ calls = NoCalls
    /\ ended = EndedBy(NoCalls)
    /\ clock = 0
    /\ current_game = None
    /\ today = Today0
    /\ call = NoCall
    /\ ret = 0
    /\ stats = None
    /\ screen = None

\* handle_click on a digit button
ClickDigit(value) ==
    /\ ~game.game_complete
    /\ game.wait_for_answer
    /\ game' = IF Len(game.player_answer) < 2
               THEN [game EXCEPT !.player_answer = Append(@, value)]
               ELSE game
    /\ UNCHANGED <<data, file, current_game, today, clock, calls, call, ret,
                   ended, stats, screen, start_file, app, player>>

\* handle_click on the submit button
ClickSubmit ==
    /\ ~game.game_complete
    /\ game.wait_for_answer
    /\ game.score < MaxScore
    /\ game' = IF game.player_answer # <<>> THEN CheckAnswer(game) ELSE game
    /\ UNCHANGED <<data, file, current_game, today, clock, calls, call, ret,
                   ended, stats, screen, start_file, app, player>>

\* handle_click on the clear button
ClickClear ==
    /\ ~game.game_complete
    /\ game.wait_for_answer
    /\ game' = [game EXCEPT !.player_answer = <<>>]
    /\ UNCHANGED <<data, file, current_game, today, clock, calls, call, ret,
                   ended, stats, screen, start_file, app, player>>

\* update(dt) of a game that is not complete, its four blocks in order: the
\* show timer, the wait for the voice, the feedback timer, the pending next
\* round
CountingUpdate(dt, speaking, count) ==
    /\ ~game.game_complete
    /\ LET g == game
           shown == g.is_showing /\ g.show_timer - dt <= 0
           g1 == IF ~g.is_showing THEN g
                 ELSE IF shown
                 THEN [g EXCEPT !.show_timer = @ - dt, !.is_showing = FALSE,
                                !.wait_for_answer = TRUE,
                                !.waiting_for_voice = TRUE, !.voice_timer = 0]
                 ELSE [g EXCEPT !.show_timer = @ - dt]
           g2 == IF ~g1.waiting_for_voice THEN g1
                 ELSE [g1 EXCEPT !.voice_timer = @ + dt,
                                 !.waiting_for_voice =
                                     ~(~speaking \/ g1.voice_timer + dt > 6)]
           g3 == IF ~(g2.emoji_timer > 0) THEN g2
                 ELSE IF g2.emoji_timer - dt > 0
                 THEN [g2 EXCEPT !.emoji_timer = @ - dt]
                 ELSE IF g2.show_result_emoji = "happy"
                 THEN [g2 EXCEPT !.emoji_timer = @ - dt, !.show_result_emoji = "none",
                                 !.waiting_for_voice = TRUE, !.voice_timer = 0,
                                 !.pending_next_round = TRUE]
                 ELSE [g2 EXCEPT !.emoji_timer = @ - dt, !.show_result_emoji = "none"]
       IN  game' = IF g3.pending_next_round /\ ~g3.waiting_for_voice
                   THEN StartNewRound([g3 EXCEPT !.pending_next_round = FALSE], count)
                   ELSE g3
    /\ UNCHANGED <<data, file, current_game, today, clock, calls, call, ret,
                   ended, stats, screen, start_file, app, player>>

NextCounting ==
    \/ \E value \in {"1", "2"} : ClickDigit(value)
    \/ ClickSubmit
    \/ ClickClear
    \/ \E dt \in {2, 3}, speaking \in BOOLEAN,
          count \in CountParams(game.difficulty).min..CountParams(game.difficulty).max :
          CountingUpdate(dt, speaking, count)

SpecCounting == InitCounting /\ [][NextCounting]_vars

-----------------------------------------------------------------------------
(* Properties *)

\* an end_game step that found a session, seen from the state before it
EndsSession == current_game # None /\ call'.op = "end_game"

\* an end_game step that ran to its end
EndsGame == EndsSession /\ ~call'.raised

\* the last operation was an end_game that ran to its end on type g
Ended(g) == call.op = "end_game" /\ call.type = g /\ ~call.raised

\* the last operation was get_difficulty(g)
Asked(g) == call.op = "get_difficulty" /\ call.type = g

\* C1: whatever games were played, every game record's current_difficulty
\* is an integer from 1 to 10.
CurrentDifficultyInRange ==
    \A g \in DOMAIN data.games : data.games[g].current_difficulty \in 1..10

\* a won game played at difficulty 10 with five wins in a row stayed at 10
WitnessWonAtCap ==
    /\ Ended("counting")
    /\ call.won
    /\ LET h == data.games["counting"].history
       IN  /\ Len(h) >= 5
           /\ \A i \in (Len(h) - 4)..Len(h) : h[i].won
           /\ h[Len(h)].difficulty = 10
    /\ data.games["counting"].current_difficulty = 10

\* C2: a recorded game changes current_difficulty d of its type by the wins
\* w among the last 5 history entries only: fewer than 5 entries leave d,
\* w = 5 gives min(d+1, 10), w <= 2 gives max(d-1, 1), w in {3, 4} leaves d;
\* the change is never more than 1.
AdjustmentFollowsLastFive ==
    [][EndsGame =>
        LET g == current_game.type
            d == data.games[g].current_difficulty
            dn == data'.games[g].current_difficulty
            h == data'.games[g].history
            n == Len(h)
            w == Cardinality({i \in (n - 4)..n : h[i].won})
        IN  IF n < 5
            THEN dn = d
            ELSE /\ w = 5 => dn = (IF d + 1 > 10 THEN 10 ELSE d + 1)
                 /\ w <= 2 => dn = (IF d - 1 < 1 THEN 1 ELSE d - 1)
                 /\ w \in {3, 4} => dn = d
                 /\ dn - d \in {-1, 0, 1}]_vars

\* a game lowered the difficulty of a type whose history is longer than 5
\* and holds more wins than losses overall
WitnessDecreaseOnLastFive ==
    \E g \in DOMAIN data.games :
        /\ Ended(g)
        /\ LET h == data.games[g].history
           IN  /\ Len(h) > 5
               /\ 2 * Cardinality({i \in 1..Len(h) : h[i].won}) > Len(h)
               /\ h[Len(h)].difficulty = data.games[g].current_difficulty + 1

\* C3: a history never holds more than 50 entries, and once more than 50
\* games of a type were recorded it holds exactly 50, the 50 most recent
\* calls in call order.
HistoryKeepsLastFifty ==
    \A g \in DOMAIN data.games :
        LET h == data.games[g].history
            c == calls[g]
        IN  /\ Len(h) <= 50
            /\ Len(c) > 50 =>
                  /\ Len(h) = 50
                  /\ \A i \in 1..50 : h[i] = c[Len(c) - 50 + i]

\* a game was recorded after more than 50 games of its type
WitnessOverFifty ==
    /\ Ended("counting")
    /\ Len(calls["counting"]) > 50
    /\ clock > 0

\* C4: an entry v of difficulty_settings for g makes get_difficulty(g)
\* return v clamped to 1..10, whatever birth date and record g has.
OverrideWins ==
    \A g \in DOMAIN data.difficulty_settings :
        Asked(g) =>
            LET v == data.difficulty_settings[g]
            IN  ret = (IF v < 1 THEN 1 ELSE IF v > 10 THEN 10 ELSE v)

\* override 7 returned for a child of age-table value 10 with a record of
\* ten wins in ten games
WitnessOverrideOverAge ==
    /\ Asked("counting")
    /\ "counting" \in DOMAIN data.difficulty_settings
    /\ data.difficulty_settings["counting"] = 7
    /\ data.birth_date = FormatDate(today.year - 10, 1, 1)
    /\ data.games["counting"].games_played = 10
    /\ data.games["counting"].games_won = 10
    /\ ret = 7

\* C5: with no override for g and at most 3 games played, get_difficulty(g)
\* is the age-table value of months = (today.year - birth.year) * 12 +
\* today.month - birth.month, and 5 when there is no birth date.
AgeTableDecides ==
    \A g \in AskTypes :
        (/\ Asked(g)
         /\ g \notin DOMAIN data.difficulty_settings
         /\ g \in DOMAIN data.games => data.games[g].games_played <= 3)
        =>
        /\ data.birth_date = NoDate => ret = 5
        /\ \A y \in (today.year - MaxAgeYears - 1)..today.year, m \in 1..12,
              dd \in BirthDays :
              data.birth_date = FormatDate(y, m, dd) =>
                  LET months == (today.year - y) * 12 + today.month - m
                  IN  ret = CASE months < 42 -> 1
                              [] months \in 42..47 -> 2
                              [] months \in 48..53 -> 3
                              [] months \in 54..59 -> 4
                              [] months \in 60..65 -> 5
                              [] months \in 66..71 -> 6
                              [] months \in 72..83 -> 7
                              [] months \in 84..95 -> 8
                              [] months \in 96..107 -> 9
                              [] months >= 108 -> 10

\* a child born 2023-05-28 is 42 months old in November 2026 and gets 2
WitnessFortyTwoMonths ==
    /\ Asked("counting")
    /\ "counting" \notin DOMAIN data.difficulty_settings
    /\ data.games["counting"].games_played <= 3
    /\ today = Today0
    /\ data.birth_date = FormatDate(2023, 5, 28)
    /\ ret = 2

\* C6: with no override for g, get_difficulty(g) nudges the age baseline b
\* by the all-time win rate only when more than 3 games were played:
\* rate > 0.9 gives min(b+2, 10), else rate > 0.8 min(b+1, 10), else
\* rate < 0.2 max(b-2, 1), else rate < 0.3 max(b-1, 1), otherwise b.
WinRateNudges ==
    \A g \in AskTypes :
        (Asked(g) /\ g \notin DOMAIN data.difficulty_settings) =>
            LET b == BaseDifficulty(data.birth_date, today)
                has == g \in DOMAIN data.games
                p == IF has THEN data.games[g].games_played ELSE 0
                w == IF has THEN data.games[g].games_won ELSE 0
                up(k) == IF b + k > 10 THEN 10 ELSE b + k
                down(k) == IF b - k < 1 THEN 1 ELSE b - k
            IN  ret = IF p <= 3 THEN b
                      ELSE IF 10 * w > 9 * p THEN up(2)
                      ELSE IF 10 * w > 8 * p THEN up(1)
                      ELSE IF 10 * w < 2 * p THEN down(2)
                      ELSE IF 10 * w < 3 * p THEN down(1)
                      ELSE b

\* nine wins in ten games, a rate of exactly 0.9, raised the baseline by 1
WitnessRateNineTenths ==
    /\ Asked("counting")
    /\ "counting" \notin DOMAIN data.difficulty_settings
    /\ data.games["counting"].games_played = 10
    /\ data.games["counting"].games_won = 9
    /\ BaseDifficulty(data.birth_date, today) <= 8
    /\ ret = BaseDifficulty(data.birth_date, today) + 1

CoinsByDifficultyAtCall ==
    [][(EndsGame /\ call'.won) =>
        data'.total_coins =
            data.total_coins + 10 + data.games[current_game.type].current_difficulty]_vars

\* C9: end_game with an active session adds 3 stars if won with score >= 90,
\* 2 if won with 70 <= score < 90, 1 if won with score < 70, and leaves
\* stars and coins alone if not won.
StarsByScore ==
    [][EndsSession =>
        /\ data'.total_stars = data.total_stars +
               (IF ~call'.won THEN 0
                ELSE IF call'.score >= 90 THEN 3
                ELSE IF call'.score >= 70 THEN 2
                ELSE 1)
        /\ ~call'.won => data'.total_coins = data.total_coins]_vars

\* C10: a recorded game adds 1 to games_played of its type, adds 1 to
\* games_won exactly when won, and the entry it appends carries the
\* current_difficulty from before this call's adjustment.
RecordCountsAndEntry ==
    [][EndsGame =>
        LET g == current_game.type
            old == data.games[g]
            new == data'.games[g]
            e == new.history[Len(new.history)]
        IN  /\ new.games_played = old.games_played + 1
            /\ new.games_won = old.games_won + (IF call'.won THEN 1 ELSE 0)
            /\ e.difficulty = old.current_difficulty
            /\ e.won = call'.won
            /\ e.score = call'.score]_vars

\* a won game raised the difficulty, and its entry carries the lower value
WitnessEntryBeforeRaise ==
    \E g \in DOMAIN data.games :
        /\ Ended(g)
        /\ call.won
        /\ LET h == data.games[g].history
           IN  /\ Len(h) > 0
               /\ h[Len(h)].difficulty + 1 = data.games[g].current_difficulty

\* C11: end_game called while no session is active changes no game record,
\* history, coin or star total, writes nothing, raises nothing and leaves
\* the manager idle.
IdleEndGameIsNoOp ==
    [][(current_game = None /\ call'.op = "end_game") =>
        /\ data' = data
        /\ file' = file
        /\ calls' = calls
        /\ current_game' = None
        /\ ~call'.raised]_vars

\* end_game was called with no session on a first run: still no save file
WitnessIdleEndOnFirstRun ==
    /\ call.op = "end_game"
    /\ call.type = ""
    /\ current_game = None
    /\ file = None
    /\ data.games["counting"].games_played = 0

\* C12: after end_game was called with an active session the manager has no
\* active session, for every game type the main menu can start.
SessionClearedAfterEnd ==
    [][EndsSession => current_game' = None]_vars

\* games_played of a type, 0 while the type has no record
PlayedOf(g) == IF g \in DOMAIN data.games THEN data.games[g].games_played ELSE 0

\* C13: start_game never changes the profile, also when it replaces a
\* session, and for each game type games_played equals the number of
\* end_game calls made with an active session of that type.
SessionsCountedOncePerEnd ==
    /\ [][call'.op = "start_game" => (data' = data /\ file' = file)]_vars
    /\ [](\A g \in KnownTypes \cup MenuTypes : PlayedOf(g) = ended[g])

\* the program holds a profile with game records
HasGames == data # None /\ "games" \in DOMAIN data

\* C14: every game record, also one created by migration, has
\* 0 <= games_won <= games_played, and get_game_stats of a record reports
\* win_rate = games_won / games_played within [0, 1], and 0 without error
\* when games_played = 0.
RecordsAndWinRate ==
    /\ HasGames =>
          \A g \in DOMAIN data.games :
              /\ 0 <= data.games[g].games_won
              /\ data.games[g].games_won <= data.games[g].games_played
    /\ (call.op = "get_game_stats" /\ HasRecord(data, call.type)) =>
          LET rec == data.games[call.type]
              r == stats.win_rate
          IN  /\ ~call.raised
              /\ r.den > 0
              /\ 0 <= r.num
              /\ r.num <= r.den
              /\ rec.games_played > 0 =>
                     r.num * rec.games_played = rec.games_won * r.den
              /\ rec.games_played = 0 => r.num = 0

\* statistics of rhythm, created by migration from 5 played and 4 won
\* music_theory games as 1 played and 1 won: win_rate 1
WitnessStatsOfMigrated ==
    /\ call.op = "get_game_stats"
    /\ call.type = "rhythm"
    /\ "games" \in DOMAIN start_file
    /\ "rhythm" \notin DOMAIN start_file.games
    /\ data.games["music_theory"].games_played = 5
    /\ data.games["music_theory"].games_won = 4
    /\ data.games["rhythm"].games_played = 1
    /\ data.games["rhythm"].games_won = 1
    /\ stats.win_rate = [num |-> 1, den |-> 1]

\* C15: once _migrate_data has run on a loaded profile, its games mapping
\* holds a record for every known game-type id, also when the file lacked
\* older ids or the 'games' key.
AllKnownTypesAfterMigrate ==
    data # None => ("games" \in DOMAIN data /\ KnownTypes \subseteq DOMAIN data.games)

\* a profile but for its last_played stamp
SansLastPlayed(d) == [d EXCEPT !.last_played = 0]

\* C16: _migrate_data run again leaves every field but last_played as the
\* first run left it, and a profile already holding staff_reading, rhythm
\* and interval is neither modified nor saved again.
MigrationIdempotent ==
    [][call'.op = "migrate" =>
        /\ SansLastPlayed(data') = SansLastPlayed(data)
        /\ ("games" \in DOMAIN data /\ NewTypes \subseteq DOMAIN data.games) =>
               (data' = data /\ file' = file)]_vars

\* migration ran again after a rhythm game was played on a profile whose
\* rhythm record the first migration created from music_theory
WitnessMigratedTwice ==
    /\ call.op = "migrate"
    /\ "games" \in DOMAIN start_file
    /\ "rhythm" \notin DOMAIN start_file.games
    /\ data.games["music_theory"].games_played >= 3
    /\ data.games["rhythm"].games_played = data.games["music_theory"].games_played \div 3 + 1
    /\ Len(data.games["rhythm"].history) = 1

\* C17: GameProgress() never raises over the save file's content: a missing,
\* unreadable or invalid file, or JSON that is no object, gives the default
\* profile with every known id present and zeroed.
ConstructionFallsBackToDefault ==
    (call.op = "load" /\ start_file \in {None, Unparsable} \cup NotObjects) =>
        (~call.raised /\ data = DefaultData(0))

\* what a load of the save file would give, on the files the program wrote
Persisted == IF file = None THEN DefaultData(0) ELSE file

\* C18: every mutation of the profile is flushed at once: in every reachable
\* state, so after each setter, end_game and save attempt of the settings
\* screen, the persisted profile equals the one in memory but for last_played.
EveryMutationFlushed ==
    SansLastPlayed(data) = SansLastPlayed(Persisted)

\* C19: a save the settings screen rejects leaves player_name, birth_date
\* and difficulty_settings in memory as they were before the attempt, and
\* writes nothing.
RejectedSaveChangesNothing ==
    [][(call'.op = "click_save" /\ ~call'.won) =>
        /\ data'.player_name = data.player_name
        /\ data'.birth_date = data.birth_date
        /\ data'.difficulty_settings = data.difficulty_settings
        /\ file' = file]_vars

\* C20: the settings screen stores a birth date only on a save with three
\* filled fields that form a calendar date not after today whose age in
\* calendar months m is within 36..120; get_difficulty's age baseline for
\* the stored text is then the table value for m, within 1..10.
StoredBirthDateIsValidated ==
    [][call'.op = "click_save" =>
        IF call'.won /\ BirthFilled(screen)
        THEN \E y \in (today.year - 11)..today.year, m \in 1..12, d \in 1..31 :
                 LET months == (today.year - y) * 12 + today.month - m
                     leap == (y % 4 = 0 /\ y % 100 # 0) \/ y % 400 = 0
                     last == IF m = 2 THEN (IF leap THEN 29 ELSE 28)
                             ELSE IF m \in {4, 6, 9, 11} THEN 30 ELSE 31
                     base == BaseDifficulty(data'.birth_date, today)
                 IN  /\ data'.birth_date = FormatDate(y, m, d)
                     /\ d <= last
                     /\ y < today.year \/ m < today.month
                           \/ (m = today.month /\ d <= today.day)
                     /\ 36 <= months
                     /\ months <= 120
                     /\ base \in 1..10
                     /\ base = CASE months < 42 -> 1
                                [] months \in 42..47 -> 2
                                [] months \in 48..53 -> 3
                                [] months \in 54..59 -> 4
                                [] months \in 60..65 -> 5
                                [] months \in 66..71 -> 6
                                [] months \in 72..83 -> 7
                                [] months \in 84..95 -> 8
                                [] months \in 96..107 -> 9
                                [] months >= 108 -> 10
        ELSE data'.birth_date = data.birth_date]_vars

\* the day of a birth date 36 months back was retyped from 03 to 09 and saved
WitnessBirthDayRetyped ==
    /\ call.op = "click_save"
    /\ call.won
    /\ start_file # None
    /\ start_file.birth_date = FormatDate(2023, 11, 3)
    /\ data.birth_date = FormatDate(2023, 11, 9)
    /\ file = data

\* C21: a birth_date that cannot be parsed as year-month-day never makes
\* get_difficulty raise; the age baseline is 5 and the win-rate nudge applies
\* to it as to any baseline. The texts taken are one part only, an
\* impossible day, an impossible month and an empty part.
MalformedBirthDateGivesFive ==
    \A g \in AskTypes :
        (/\ Asked(g)
         /\ g \notin DOMAIN data.difficulty_settings
         /\ data.birth_date \in
                {<<"2", "0", "2", "0">>,
                 <<"2", "0", "2", "1", "-", "0", "2", "-", "3", "0">>,
                 <<"2", "0", "2", "0", "-", "1", "3", "-", "0", "1">>,
                 <<"2", "0", "2", "0", "-", "-", "0", "1">>})
        =>
        LET has == g \in DOMAIN data.games
            p == IF has THEN data.games[g].games_played ELSE 0
            w == IF has THEN data.games[g].games_won ELSE 0
        IN  /\ ~call.raised
            /\ ret = IF p <= 3 THEN 5
                      ELSE IF 10 * w > 9 * p THEN 7
                      ELSE IF 10 * w > 8 * p THEN 6
                      ELSE IF 10 * w < 2 * p THEN 3
                      ELSE IF 10 * w < 3 * p THEN 4
                      ELSE 5

\* with birth_date '2021-02-30' and ten wins in ten games the answer is 7
WitnessImpossibleDayNudged ==
    /\ Asked("counting")
    /\ "counting" \notin DOMAIN data.difficulty_settings
    /\ data.birth_date = <<"2", "0", "2", "1", "-", "0", "2", "-", "3", "0">>
    /\ data.games["counting"].games_played = 10
    /\ data.games["counting"].games_won = 10
    /\ ret = 7

\* C22: saving a profile and loading it again gives a profile equal in every
\* field to the one saved, and a load, a save and another load give the
\* value of the first load but for last_played.
PersistenceRoundTrips ==
    [][call'.op = "restart" =>
        /\ data' = SaveProgress(data, clock')
        /\ call.op \in {"load", "restart"} =>
               SansLastPlayed(data') = SansLastPlayed(data)]_vars

\* a profile with a full history whose last game was won with score 100,
\* a birth date, overrides and an achievement came back from the file
WitnessPlayedProfileReloaded ==
    /\ call.op = "restart"
    /\ Len(data.games["counting"].history) = HistoryCap
    /\ data.games["counting"].history[HistoryCap].won
    /\ data.games["counting"].history[HistoryCap].score = 100
    /\ data.games["counting"].games_played = HistoryCap + 3
    /\ data.birth_date = FormatDate(2020, 5, 28)
    /\ data.difficulty_settings["counting"] = 10
    /\ data.achievements = <<"first_win">>
    /\ file = data

\* C23: every game instance of the main loop whose game_complete became true
\* has had its result passed to end_game exactly once by the time the app
\* has left it, and no instance has its result passed twice
CompletedGamePassedOnce ==
    \A i \in 1..Len(app.passed) :
        /\ app.passed[i] <= 1
        /\ (app.completed[i] /\ (game = None \/ game.id # i)) => app.passed[i] = 1

\* C24: while frames keep coming, a game that is complete is left for the
\* menu, whatever is_speaking() answers: the wait ends once the timer has
\* passed 5 seconds
CompleteGameReturnsToMenu ==
    (app.running /\ app.state = "game" /\ game # None /\ game.game_complete)
        ~> (app.state = "menu")

\* the menu reached from a wait in which is_speaking() was true at every
\* frame, the result of the game having been passed on at its first frame
WitnessLeftWhileStillSpeaking ==
    /\ app.state = "menu"
    /\ ~app.has_timer
    /\ app.end_game_timer > 5
    /\ ~app.silence
    /\ Len(app.passed) = 1
    /\ app.completed[1]
    /\ app.passed[1] = 1
    /\ HasRecord(data, "counting")
    /\ data.games["counting"].games_played = 1

\* C25: is_speaking and current_process are written by the worker threads
\* only, never by a step of the calling thread, and while the process of the
\* newest utterance is running and its worker waits for it, the player's flag
\* is set and its handle refers to that process
OnlyWorkersWriteSpeechState ==
    /\ [][player'.by \in {"speak", "spawn", "stop", "is_playing"} =>
            /\ player'.is_speaking = player.is_speaking
            /\ player'.current_process = player.current_process]_vars
    /\ [](\A i \in DOMAIN player.workers :
            LET w == player.workers[i]
            IN  (/\ i = Len(player.workers)
                 /\ w.pc = "wait"
                 /\ w.proc # 0
                 /\ player.procs[w.proc] = "running")
                    => (player.is_speaking /\ player.current_process = w.proc))

\* profile d with current_difficulty set to cd, and the history emptied, in
\* every game record
Twin(d, cd) ==
    [d EXCEPT !.games = [g \in DOMAIN @ |->
                            [@[g] EXCEPT !.current_difficulty = cd,
                                         !.history = <<>>]]]

\* C26: the difficulty handed to a game instance the menu starts is the one
\* get_difficulty computes on any profile that differs from the player's
\* only in current_difficulty and history, so it does not depend on either
DifficultyIgnoresStoredLevel ==
    [][(app.state = "menu" /\ app'.state = "game") =>
         \A cd \in {MinDifficulty, MaxDifficulty} :
             game'.difficulty = GetDifficultyValue(Twin(data, cd), game'.type, today)]_vars

\* the second counting game started after a fifth win raised the stored
\* current_difficulty from 1 to 2: it is handed 7, as the first one was
WitnessAdjustedLevelNotHandedOn ==
    /\ app.state = "game"
    /\ game # None
    /\ game.id = 2
    /\ game.type = "counting"
    /\ game.difficulty = 7
    /\ HasRecord(data, "counting")
    /\ data.games["counting"].games_played = 5
    /\ data.games["counting"].games_won = 5
    /\ data.games["counting"].current_difficulty = 2
    /\ data.birth_date = NoDate
    /\ ~HasSettings(data)

\* C27: on a profile that had no difficulty_settings, once a save from the
\* settings screen has succeeded the profile holds an override for each of
\* the seven menu games, 5 unless its slider was moved, and get_difficulty
\* answers with it; until then get_difficulty answers with the default
\* computed from the birth date and the win rate
OverridesForAllAfterFirstSave ==
    (start_file = None \/ ~HasSettings(start_file)) =>
        /\ HasSettings(data) =>
              /\ DOMAIN data.difficulty_settings = MenuTypes
              /\ \A g \in MenuTypes \ {"counting"} : data.difficulty_settings[g] = 5
              /\ data.difficulty_settings["counting"]
                    \in {5, SliderValue(0), SliderValue(239)}
              /\ file # None /\ HasSettings(file)
        /\ (call.op = "get_difficulty" /\ HasSettings(data)) =>
              ret = data.difficulty_settings[call.type]
        /\ (call.op = "get_difficulty" /\ ~HasSettings(data)) =>
              ret = GetDifficultyValueNudged(data, call.type, today)

\* four counting games won and the settings saved for the first time, slider
\* untouched: counting is handed 5, no longer the 7 the win rate gave
WitnessSliderDefaultOverWinRate ==
    /\ start_file # None
    /\ ~HasSettings(start_file)
    /\ HasSettings(data)
    /\ call.op = "get_difficulty"
    /\ call.type = "counting"
    /\ ret = 5
    /\ data.games["counting"].games_played = 4
    /\ data.games["counting"].games_won = 4
    /\ GetDifficultyValueNudged([data EXCEPT !.difficulty_settings = NoSettings],
                                "counting", today) = 7

\* C28: name edits, birth-date edits and slider clicks on the settings screen,
\* and the Cancel that closes it, leave player_name, birth_date and
\* difficulty_settings of the profile in memory, and the save file, as they
\* were, so the profile after Cancel is the one the screen was opened on
CancelLeavesProfileUnchanged ==
    [][call'.op \in {"click_box", "key_down", "click_slider", "click_cancel"} =>
        /\ data'.player_name = data.player_name
        /\ data'.birth_date = data.birth_date
        /\ data'.difficulty_settings = data.difficulty_settings
        /\ file' = file]_vars

\* C29: _create_answer_options returns, with four distinct options of which
\* one is the correct answer, for every question of every difficulty
AnswerOptionsTerminate ==
    <>(/\ game.pc = "done"
       /\ Len(game.answer_options) = 4
       /\ Cardinality(Range(game.answer_options)) = 4
       /\ game.correct_answer \in Range(game.answer_options))

\* C30: the score of the counting game never exceeds the number of rounds
\* started, so it is at most rounds_total once the game is complete
ScoreWithinRoundsStarted ==
    game.score <= Min(game.round_number, game.rounds_total)

=============================================================================
